---- MODULE Spec2Model ----
(***************************************************************************)
(* Model of the bridge of claude-code-rust (agent-sdk/src/bridge):         *)
(*   history.ts   - replay of a persisted session log into session updates *)
(*   usage.ts     - usage accounting (appended to commands.ts in src/)     *)
(*   commands.ts  - the command envelope parser                            *)
(*                                                                         *)
(* JSON values are records tagged by t.  A JavaScript string is a sequence *)
(* of tokens; a token is either a whitespace token or an opaque run of     *)
(* non-whitespace characters, so that trim() and concatenation are real    *)
(* computations.                                                           *)
(***************************************************************************)
EXTENDS Integers, Sequences, FiniteSets, TLC

(***************************************************************************)
(* Bounds of the model.                                                    *)
(***************************************************************************)
\* lines in a persisted log file
MaxLines == 2
\* calls of the replay engine in one run
MaxCalls == 2
\* usage accounting calls of one session that find a total cost
MaxObserved == 3
\* chunks in the chunks array of a prompt command
MaxChunks == 2
\* suggestions in the list that comes with a permission request
MaxSuggestions == 3
\* directory entries in the tree of project directories
MaxFiles == 3
\* the limit given to listRecentPersistedSessions
MaxLimit == 2

(***************************************************************************)
(* JSON values.                                                            *)
(***************************************************************************)
Undefined == [t |-> "undefined"]
Null == [t |-> "null"]
Str(tokens) == [t |-> "string", s |-> tokens]
S(token) == Str(<<token>>)
Num(n) == [t |-> "number", n |-> n, finite |-> TRUE]
Infinite == [t |-> "number", n |-> 0, finite |-> FALSE]
Bool(b) == [t |-> "boolean", b |-> b]
Arr(items) == [t |-> "array", items |-> items]
Obj(fields) == [t |-> "object", fields |-> fields]
NoFields == [k \in {} |-> Null]
EmptyObj == Obj(NoFields)

\* record[key]
Get(value, key) ==
  IF value.t = "object" /\ key \in DOMAIN value.fields THEN value.fields[key] ELSE Undefined

\* typeof value === "string"
IsString(value) == value.t = "string"

\* a string's truthiness: the empty string is falsy
NonEmptyString(value) == value.t = "string" /\ value.s # <<>>

\* Boolean(value)
Truthy(value) ==
  CASE value.t = "undefined" -> FALSE
    [] value.t = "null" -> FALSE
    [] value.t = "boolean" -> value.b
    [] value.t = "number" -> (~value.finite) \/ value.n # 0
    [] value.t = "string" -> value.s # <<>>
    [] OTHER -> TRUE

WhitespaceTokens == {" ", "\t"}

RECURSIVE TrimStart(_)
TrimStart(tokens) ==
  IF tokens # <<>> /\ Head(tokens) \in WhitespaceTokens THEN TrimStart(Tail(tokens)) ELSE tokens

RECURSIVE TrimEnd(_)
TrimEnd(tokens) ==
  IF tokens # <<>> /\ tokens[Len(tokens)] \in WhitespaceTokens
  THEN TrimEnd(SubSeq(tokens, 1, Len(tokens) - 1))
  ELSE tokens

\* String.prototype.trim
Trim(tokens) == TrimEnd(TrimStart(tokens))

(***************************************************************************)
(* shared.ts and tooling.ts are not part of the sources at hand; the four  *)
(* helpers history.ts imports from them are modelled from the description  *)
(* of the replay engine.                                                   *)
(***************************************************************************)
\* asRecordOrNull: the value itself when it is a non-array object, else null
asRecordOrNull(value) == IF value.t = "object" THEN value ELSE Null

ToolUseBlockTypes == {<<"tool_use">>}
isToolUseBlockType(blockType) == blockType \in ToolUseBlockTypes
TOOL_RESULT_TYPES == {<<"tool_result">>}

createToolCall(id, name, input) ==
  [id |-> id, name |-> name, input |-> input, status |-> "pending",
   raw_output |-> Undefined, content |-> Undefined]

\* the fields of a tool_call_update for one tool-result block
buildToolResultFields(isError, rawContent, base) ==
  [status |-> IF isError THEN "error" ELSE "completed",
   raw_output |-> IF IsString(rawContent) THEN rawContent ELSE Undefined,
   content |-> IF NonEmptyString(rawContent)
               THEN Arr(<<Obj([type |-> S("text"), text |-> rawContent])>>)
               ELSE Undefined]

(***************************************************************************)
(* usage.ts                                                                *)
(***************************************************************************)
\* a session context that was not supplied
NoSession == [supplied |-> FALSE, model |-> Undefined, lastTotalCostUsd |-> Undefined]
Session(model, lastTotalCostUsd) ==
  [supplied |-> TRUE, model |-> model, lastTotalCostUsd |-> lastTotalCostUsd]

IsFiniteNumber(value) == value.t = "number" /\ value.finite

RECURSIVE numberField(_, _)
numberField(record, keys) ==
  IF keys = <<>> THEN Undefined
  ELSE IF IsFiniteNumber(Get(record, Head(keys))) THEN Get(record, Head(keys))
  ELSE numberField(record, Tail(keys))

\* the elements of a set of strings in ascending order; the model's keys are
\* ordered by the table KeyOrder
KeyOrder == <<"haiku", "opus", "sonnet">>
SortedKeys(keys) == SelectSeq(KeyOrder, LAMBDA k : k \in keys)

RECURSIVE FirstRecord(_, _)
FirstRecord(modelUsageRaw, keys) ==
  IF keys = <<>> THEN Null
  ELSE IF asRecordOrNull(Get(modelUsageRaw, Head(keys))) # Null
       THEN Get(modelUsageRaw, Head(keys))
       ELSE FirstRecord(modelUsageRaw, Tail(keys))

\* the key a model name (a one-token string) stands for
KeyOf(value) == IF NonEmptyString(value) /\ Len(value.s) = 1 THEN <<value.s[1]>> ELSE <<>>

selectModelUsageRecord(session, message) ==
  LET modelUsageRaw == asRecordOrNull(Get(message, "modelUsage"))
      sortedKeys == IF modelUsageRaw = Null THEN <<>>
                    ELSE SortedKeys(DOMAIN modelUsageRaw.fields)
      preferredKeys ==
        (IF session.supplied THEN KeyOf(session.model) ELSE <<>>)
          \o (IF IsString(Get(message, "model")) THEN KeyOf(Get(message, "model")) ELSE <<>>)
  IN IF modelUsageRaw = Null \/ sortedKeys = <<>> THEN Null
     ELSE IF FirstRecord(modelUsageRaw, preferredKeys) # Null
          THEN FirstRecord(modelUsageRaw, preferredKeys)
          ELSE FirstRecord(modelUsageRaw, sortedKeys)

\* Math.max(0, x)
Max0(x) == IF x > 0 THEN x ELSE 0

\* a turn cost that is the plain difference of the totals
turnCost_Unclamped(session, totalCostUsd) ==
  IF totalCostUsd # Undefined /\ session.supplied
  THEN IF session.lastTotalCostUsd = Undefined
       THEN totalCostUsd
       ELSE Num(totalCostUsd.n - session.lastTotalCostUsd.n)
  ELSE Undefined

\* the turn cost of a call that found totalCostUsd
turnCost(session, totalCostUsd) ==
  IF totalCostUsd # Undefined /\ session.supplied
  THEN IF session.lastTotalCostUsd = Undefined
       THEN totalCostUsd
       ELSE Num(Max0(totalCostUsd.n - session.lastTotalCostUsd.n))
  ELSE Undefined

\* a session context whose last total only ever grows
sessionAfter_KeepsMax(session, totalCostUsd) ==
  IF totalCostUsd # Undefined /\ session.supplied
  THEN IF session.lastTotalCostUsd # Undefined /\ session.lastTotalCostUsd.n > totalCostUsd.n
       THEN session
       ELSE [session EXCEPT !.lastTotalCostUsd = totalCostUsd]
  ELSE session

\* the session context after a call that found totalCostUsd
sessionAfter(session, totalCostUsd) ==
  IF totalCostUsd # Undefined /\ session.supplied
  THEN [session EXCEPT !.lastTotalCostUsd = totalCostUsd]
  ELSE session

\* one optional field of the usage object
Field(name, value) == IF value = Undefined THEN NoFields ELSE [k \in {name} |-> value]

\* the update returned (Null for none) and the session context left behind
buildUsageUpdateFromResultForSession(session, message) ==
  LET usage == asRecordOrNull(Get(message, "usage"))
      inputTokens == IF usage # Null
                     THEN numberField(usage, <<"inputTokens", "input_tokens">>)
                     ELSE Undefined
      outputTokens == IF usage # Null
                      THEN numberField(usage, <<"outputTokens", "output_tokens">>)
                      ELSE Undefined
      cacheReadTokens ==
        IF usage # Null
        THEN numberField(usage, <<"cacheReadInputTokens", "cache_read_input_tokens",
                                  "cache_read_tokens">>)
        ELSE Undefined
      cacheWriteTokens ==
        IF usage # Null
        THEN numberField(usage, <<"cacheCreationInputTokens", "cache_creation_input_tokens",
                                  "cache_write_tokens">>)
        ELSE Undefined
      totalCostUsd == numberField(message, <<"total_cost_usd", "totalCostUsd">>)
      turnCostUsd == turnCost(session, totalCostUsd)
      modelUsage == selectModelUsageRecord(session, message)
      contextWindow == IF modelUsage # Null
                       THEN numberField(modelUsage, <<"contextWindow", "context_window">>)
                       ELSE Undefined
      maxOutputTokens == IF modelUsage # Null
                         THEN numberField(modelUsage, <<"maxOutputTokens", "max_output_tokens">>)
                         ELSE Undefined
      extracted == Field("input_tokens", inputTokens) @@ Field("output_tokens", outputTokens)
                     @@ Field("cache_read_tokens", cacheReadTokens)
                     @@ Field("cache_write_tokens", cacheWriteTokens)
                     @@ Field("total_cost_usd", totalCostUsd)
                     @@ Field("turn_cost_usd", turnCostUsd)
                     @@ Field("context_window", contextWindow)
                     @@ Field("max_output_tokens", maxOutputTokens)
  IN [update |-> IF DOMAIN extracted = {} THEN Null
                 ELSE [type |-> "usage_update", usage |-> extracted],
      session |-> sessionAfter(session, totalCostUsd)]

buildUsageUpdateFromResult(message) ==
  buildUsageUpdateFromResultForSession(NoSession, message).update

(***************************************************************************)
(* history.ts: the replay engine.                                          *)
(*                                                                         *)
(* A replay state st holds the locals of one call of                       *)
(* extractSessionHistoryUpdatesFromJsonl: updates, toolCalls and           *)
(* emittedUsageMessageIds.  ToolCall objects live in st.heap and are       *)
(* referred to by address, because the array of updates and the map of     *)
(* tool calls hold references to the same objects.                         *)
(***************************************************************************)
EmptyMap == [k \in {} |-> 0]

NewReplay ==
  [updates |-> <<>>, toolCalls |-> EmptyMap, emittedUsageMessageIds |-> {}, heap |-> <<>>]

\* a push that puts the update in front
Push_Front(updates, update) == <<update>> \o updates

\* updates.push(update)
Push(updates, update) == Append(updates, update)

\* the tokens of value when it is a string, else the empty string
StringOrEmpty(value) == IF IsString(value) THEN value.s ELSE <<>>

persistedMessageCandidates(record) ==
  LET topLevel == asRecordOrNull(Get(record, "message"))
      nested == asRecordOrNull(Get(Get(Get(record, "data"), "message"), "message"))
  IN (IF topLevel # Null THEN <<topLevel>> ELSE <<>>)
       \o (IF nested # Null THEN <<nested>> ELSE <<>>)

pushResumeTextChunk(updates, role, text) ==
  IF Trim(text) = <<>> THEN updates
  ELSE IF role = <<"assistant">>
       THEN Push(updates, [type |-> "agent_message_chunk",
                           content |-> [type |-> "text", text |-> text]])
       ELSE Push(updates, [type |-> "user_message_chunk",
                           content |-> [type |-> "text", text |-> text]])

\* a tool use that emits the creation update but does not store the call
pushResumeToolUse_NotStored(st, block) ==
  LET toolUseId == StringOrEmpty(Get(block, "id"))
      name == IF IsString(Get(block, "name")) THEN Get(block, "name") ELSE S("Tool")
      input == IF asRecordOrNull(Get(block, "input")) # Null
               THEN Get(block, "input") ELSE EmptyObj
      toolCall == [createToolCall(toolUseId, name, input) EXCEPT !.status = "in_progress"]
      address == Len(st.heap) + 1
  IN IF toolUseId = <<>> THEN st
     ELSE [st EXCEPT !.heap = Append(@, toolCall),
                     !.updates = Push(@, [type |-> "tool_call", tool_call |-> address])]

pushResumeToolUse(st, block) ==
  LET toolUseId == StringOrEmpty(Get(block, "id"))
      name == IF IsString(Get(block, "name")) THEN Get(block, "name") ELSE S("Tool")
      input == IF asRecordOrNull(Get(block, "input")) # Null
               THEN Get(block, "input") ELSE EmptyObj
      toolCall == [createToolCall(toolUseId, name, input) EXCEPT !.status = "in_progress"]
      address == Len(st.heap) + 1
  IN IF toolUseId = <<>> THEN st
     ELSE [st EXCEPT !.heap = Append(@, toolCall),
                     !.toolCalls = (toolUseId :> address) @@ @,
                     !.updates = Push(@, [type |-> "tool_call", tool_call |-> address])]

\* the stored tool call after the result fields were merged into it
mergeToolResult(base, fields) ==
  [base EXCEPT !.status = fields.status,
               !.raw_output = IF Truthy(fields.raw_output) THEN fields.raw_output ELSE @,
               !.content = IF Truthy(fields.content) THEN fields.content ELSE @]

\* a tool result that is dropped when no tool call with its id is open
pushResumeToolResult_OnlyOpen(st, block) ==
  LET toolUseId == StringOrEmpty(Get(block, "tool_use_id"))
      isError == Truthy(Get(block, "is_error"))
      hasBase == toolUseId \in DOMAIN st.toolCalls
      base == IF hasBase THEN st.heap[st.toolCalls[toolUseId]] ELSE Undefined
      fields == buildToolResultFields(isError, Get(block, "content"), base)
      pushed == [st EXCEPT !.updates =
                   Push(@, [type |-> "tool_call_update",
                            tool_call_update |-> [tool_call_id |-> toolUseId,
                                                  fields |-> fields]])]
  IN IF toolUseId = <<>> \/ ~hasBase THEN st
     ELSE [pushed EXCEPT !.heap[st.toolCalls[toolUseId]] = mergeToolResult(base, fields)]

\* a tool result that opens a tool call for an id that has none
pushResumeToolResult_OpensOrphan(st, block) ==
  LET toolUseId == StringOrEmpty(Get(block, "tool_use_id"))
      isError == Truthy(Get(block, "is_error"))
      hasBase == toolUseId \in DOMAIN st.toolCalls
      base == IF hasBase THEN st.heap[st.toolCalls[toolUseId]] ELSE Undefined
      fields == buildToolResultFields(isError, Get(block, "content"), base)
      pushed == [st EXCEPT !.updates =
                   Push(@, [type |-> "tool_call_update",
                            tool_call_update |-> [tool_call_id |-> toolUseId,
                                                  fields |-> fields]])]
  IN IF toolUseId = <<>> THEN st
     ELSE IF ~hasBase
          THEN [pushed EXCEPT !.heap = Append(@, createToolCall(toolUseId, S("Tool"), EmptyObj)),
                              !.toolCalls = (toolUseId :> (Len(st.heap) + 1)) @@ @]
     ELSE [pushed EXCEPT !.heap[st.toolCalls[toolUseId]] = mergeToolResult(base, fields)]

pushResumeToolResult(st, block) ==
  LET toolUseId == StringOrEmpty(Get(block, "tool_use_id"))
      isError == Truthy(Get(block, "is_error"))
      hasBase == toolUseId \in DOMAIN st.toolCalls
      base == IF hasBase THEN st.heap[st.toolCalls[toolUseId]] ELSE Undefined
      fields == buildToolResultFields(isError, Get(block, "content"), base)
      pushed == [st EXCEPT !.updates =
                   Push(@, [type |-> "tool_call_update",
                            tool_call_update |-> [tool_call_id |-> toolUseId,
                                                  fields |-> fields]])]
  IN IF toolUseId = <<>> THEN st
     ELSE IF ~hasBase THEN pushed
     ELSE [pushed EXCEPT !.heap[st.toolCalls[toolUseId]] = mergeToolResult(base, fields)]

\* a usage update that never marks the message id as seen
pushResumeUsageUpdate_NeverSeen(st, message) ==
  LET usageUpdate == buildUsageUpdateFromResult(message)
  IN IF usageUpdate = Null THEN st
     ELSE [st EXCEPT !.updates = Push(@, usageUpdate)]

\* a usage update that marks the message id as seen before it knows whether
\* the message yields an update
pushResumeUsageUpdate_SeenFirst(st, message) ==
  LET messageId == StringOrEmpty(Get(message, "id"))
      usageUpdate == buildUsageUpdateFromResult(message)
      marked == [st EXCEPT !.emittedUsageMessageIds =
                   IF messageId # <<>> THEN @ \cup {messageId} ELSE @]
  IN IF messageId # <<>> /\ messageId \in st.emittedUsageMessageIds THEN st
     ELSE IF usageUpdate = Null THEN marked
     ELSE [marked EXCEPT !.updates = Push(@, usageUpdate)]

pushResumeUsageUpdate(st, message) ==
  LET messageId == StringOrEmpty(Get(message, "id"))
      usageUpdate == buildUsageUpdateFromResult(message)
  IN IF messageId # <<>> /\ messageId \in st.emittedUsageMessageIds THEN st
     ELSE IF usageUpdate = Null THEN st
     ELSE [st EXCEPT !.updates = Push(@, usageUpdate),
                     !.emittedUsageMessageIds =
                        IF messageId # <<>> THEN @ \cup {messageId} ELSE @]

\* the body of the loop over the content of a message
ProcessBlock(st, role, item) ==
  LET block == asRecordOrNull(item)
      blockType == StringOrEmpty(Get(block, "type"))
  IN IF block = Null THEN st
     ELSE IF blockType = <<"thinking">> THEN st
     ELSE IF blockType = <<"text">> /\ IsString(Get(block, "text"))
          THEN [st EXCEPT !.updates = pushResumeTextChunk(@, role, Get(block, "text").s)]
     ELSE IF isToolUseBlockType(blockType) /\ role = <<"assistant">>
          THEN pushResumeToolUse(st, block)
     ELSE IF blockType \in TOOL_RESULT_TYPES
          THEN pushResumeToolResult(st, block)
     ELSE IF blockType = <<"image">>
          THEN [st EXCEPT !.updates = pushResumeTextChunk(@, role, <<"[image]">>)]
     ELSE st

\* message.role is "user" or "assistant"
QualifyingRole(message) == Get(message, "role") \in {S("user"), S("assistant")}

\* Array.isArray(message.content) ? message.content : []
ContentOf(message) ==
  IF Get(message, "content").t = "array" THEN Get(message, "content").items ELSE <<>>

\* what the caller of extractSessionHistoryUpdatesFromJsonl reads in the
\* returned array: every tool_call update shows the object it refers to
Returned(st) ==
  [i \in 1..Len(st.updates) |->
     IF st.updates[i].type = "tool_call"
     THEN [type |-> "tool_call", tool_call |-> st.heap[st.updates[i].tool_call]]
     ELSE st.updates[i]]

(***************************************************************************)
(* commands.ts: the command envelope parser.  A call either returns a      *)
(* value (ok) or throws an Error with a message (a sequence of tokens).    *)
(***************************************************************************)
Ok(value) == [ok |-> TRUE, value |-> value, error |-> <<>>]
Throw(message) == [ok |-> FALSE, value |-> Undefined, error |-> message]

asRecord(value, context) ==
  IF ~Truthy(value) \/ value.t # "object"
  THEN Throw(context \o <<" must be an object">>)
  ELSE Ok(value)

expectString(record, key, context) ==
  IF ~IsString(Get(record, key))
  THEN Throw(context \o <<".", key, " must be a string">>)
  ELSE Ok(Get(record, key))

\* an expectBoolean that takes any value that is present
expectBoolean_AnyValue(record, key, context) ==
  IF Get(record, key) = Undefined
  THEN Throw(context \o <<".", key, " must be a boolean">>)
  ELSE Ok(Get(record, key))

expectBoolean(record, key, context) ==
  IF Get(record, key).t # "boolean"
  THEN Throw(context \o <<".", key, " must be a boolean">>)
  ELSE Ok(Get(record, key))

\* an optionalString that leaves out a value that is not a string
optionalString_DropsWrongType(record, key, context) ==
  IF ~IsString(Get(record, key)) THEN Ok(Undefined) ELSE Ok(Get(record, key))

optionalString(record, key, context) ==
  IF Get(record, key) = Undefined \/ Get(record, key) = Null THEN Ok(Undefined)
  ELSE IF ~IsString(Get(record, key))
       THEN Throw(context \o <<".", key, " must be a string when provided">>)
       ELSE Ok(Get(record, key))

optionalMetadata(record, key) ==
  IF Get(record, key) = Undefined \/ Get(record, key) = Null THEN Ok(EmptyObj)
  ELSE asRecord(Get(record, key), <<key, " metadata">>)

\* the first call that threw, in evaluation order, or no call (0)
FirstThrow(results) ==
  IF \A i \in DOMAIN results : results[i].ok THEN 0
  ELSE CHOOSE i \in DOMAIN results :
         ~results[i].ok /\ \A j \in 1..(i - 1) : results[j].ok

\* `${context}.chunks[${index}]`, index counted from 0
ChunkContext(context, index) == context \o <<".", "chunks", "[", ToString(index - 1), "]">>

\* value ?? null
OrNull(value) == IF value = Undefined THEN Null ELSE value

\* the callback of rawChunks.map
ParseChunk(chunk, context, index) ==
  LET chunkRecord == asRecord(chunk, ChunkContext(context, index))
      kind == expectString(chunkRecord.value, "kind", ChunkContext(context, index))
  IN IF ~chunkRecord.ok THEN chunkRecord
     ELSE IF ~kind.ok THEN kind
     ELSE Ok(Obj([kind |-> kind.value, value |-> OrNull(Get(chunkRecord.value, "value"))]))

\* a parsePromptChunks that loses the value of every chunk
parsePromptChunks_NoValue(record, context) ==
  LET rawChunks == Get(record, "chunks")
      mapped == [i \in 1..Len(rawChunks.items) |-> ParseChunk(rawChunks.items[i], context, i)]
  IN IF rawChunks.t # "array" THEN Throw(context \o <<".", "chunks", " must be an array">>)
     ELSE IF FirstThrow(mapped) # 0 THEN mapped[FirstThrow(mapped)]
     ELSE Ok(Arr([i \in 1..Len(mapped) |->
                    Obj([kind |-> Get(mapped[i].value, "kind"), value |-> Null])]))

parsePromptChunks(record, context) ==
  LET rawChunks == Get(record, "chunks")
      mapped == [i \in 1..Len(rawChunks.items) |-> ParseChunk(rawChunks.items[i], context, i)]
  IN IF rawChunks.t # "array" THEN Throw(context \o <<".", "chunks", " must be an array">>)
     ELSE IF FirstThrow(mapped) # 0 THEN mapped[FirstThrow(mapped)]
     ELSE Ok(Arr([i \in 1..Len(mapped) |-> mapped[i].value]))

\* an object literal whose property values are computed by calls, in order:
\* the first call that throws ends the evaluation
Part(name, result) == [name |-> name, result |-> result]
ObjectLiteral(parts) ==
  LET results == [i \in DOMAIN parts |-> parts[i].result]
      present == {i \in DOMAIN parts : parts[i].result.value # Undefined}
  IN IF FirstThrow(results) # 0 THEN results[FirstThrow(results)]
     ELSE Ok(Obj([k \in {parts[i].name : i \in present} |->
                    parts[CHOOSE i \in present : parts[i].name = k].result.value]))

\* lines 146-165: the permission_response case
ParsePermissionResponse(raw) ==
  LET context == <<"permission_response", ".", "outcome">>
      outcome == asRecord(Get(raw, "outcome"), context)
      outcomeType == expectString(outcome.value, "outcome", context)
      parsedOutcome ==
        IF outcomeType.value = S("selected")
        THEN ObjectLiteral(<<Part("outcome", Ok(S("selected"))),
                             Part("option_id", expectString(outcome.value, "option_id", context))>>)
        ELSE Ok(Obj([outcome |-> S("cancelled")]))
  IN IF ~outcome.ok THEN outcome
     ELSE IF ~outcomeType.ok THEN outcomeType
     ELSE IF outcomeType.value \notin {S("selected"), S("cancelled")}
          THEN Throw(context \o <<".", "outcome", " must be 'selected' or 'cancelled'">>)
     ELSE IF ~parsedOutcome.ok THEN parsedOutcome
     ELSE ObjectLiteral(<<
            Part("command", Ok(S("permission_response"))),
            Part("session_id", expectString(raw, "session_id", <<"permission_response">>)),
            Part("tool_call_id", expectString(raw, "tool_call_id", <<"permission_response">>)),
            Part("outcome", parsedOutcome)>>)

\* lines 93-171: the switch over the command name
ParseCommand(raw, commandName) ==
  CASE commandName = <<"initialize">> ->
         ObjectLiteral(<<Part("command", Ok(S("initialize"))),
                         Part("cwd", expectString(raw, "cwd", <<"initialize">>)),
                         Part("metadata", optionalMetadata(raw, "metadata"))>>)
    [] commandName = <<"create_session">> ->
         ObjectLiteral(<<Part("command", Ok(S("create_session"))),
                         Part("cwd", expectString(raw, "cwd", <<"create_session">>)),
                         Part("yolo", expectBoolean(raw, "yolo", <<"create_session">>)),
                         Part("model", optionalString(raw, "model", <<"create_session">>)),
                         Part("resume", optionalString(raw, "resume", <<"create_session">>)),
                         Part("metadata", optionalMetadata(raw, "metadata"))>>)
    [] commandName = <<"load_session">> ->
         ObjectLiteral(<<Part("command", Ok(S("load_session"))),
                         Part("session_id", expectString(raw, "session_id", <<"load_session">>)),
                         Part("metadata", optionalMetadata(raw, "metadata"))>>)
    [] commandName = <<"new_session">> ->
         ObjectLiteral(<<Part("command", Ok(S("new_session"))),
                         Part("cwd", expectString(raw, "cwd", <<"new_session">>)),
                         Part("yolo", expectBoolean(raw, "yolo", <<"new_session">>)),
                         Part("model", optionalString(raw, "model", <<"new_session">>))>>)
    [] commandName = <<"prompt">> ->
         ObjectLiteral(<<Part("command", Ok(S("prompt"))),
                         Part("session_id", expectString(raw, "session_id", <<"prompt">>)),
                         Part("chunks", parsePromptChunks(raw, <<"prompt">>))>>)
    [] commandName = <<"cancel_turn">> ->
         ObjectLiteral(<<Part("command", Ok(S("cancel_turn"))),
                         Part("session_id", expectString(raw, "session_id", <<"cancel_turn">>))>>)
    [] commandName = <<"set_model">> ->
         ObjectLiteral(<<Part("command", Ok(S("set_model"))),
                         Part("session_id", expectString(raw, "session_id", <<"set_model">>)),
                         Part("model", expectString(raw, "model", <<"set_model">>))>>)
    [] commandName = <<"set_mode">> ->
         ObjectLiteral(<<Part("command", Ok(S("set_mode"))),
                         Part("session_id", expectString(raw, "session_id", <<"set_mode">>)),
                         Part("mode", expectString(raw, "mode", <<"set_mode">>))>>)
    [] commandName = <<"permission_response">> -> ParsePermissionResponse(raw)
    [] commandName = <<"shutdown">> -> Ok(Obj([command |-> S("shutdown")]))
    [] OTHER -> Throw(<<"unsupported command: ">> \o commandName)

\* the line is the text of a JSON value, or JSON.parse throws a SyntaxError
parseCommandEnvelope(inputLine) ==
  LET raw == asRecord(inputLine.value, <<"command envelope">>)
      requestId == IF IsString(Get(raw.value, "request_id"))
                   THEN Get(raw.value, "request_id") ELSE Undefined
      commandName == expectString(raw.value, "command", <<"command envelope">>)
      command == ParseCommand(raw.value, commandName.value.s)
  IN IF inputLine.kind # "json" THEN Throw(<<"SyntaxError">>)
     ELSE IF ~raw.ok THEN raw
     ELSE IF ~commandName.ok THEN commandName
     ELSE IF ~command.ok THEN command
     ELSE Ok([requestId |-> requestId, command |-> command.value])

(***************************************************************************)
(* Persisted log files.  A line is blank (nothing left after trim), garbage*)
(* (JSON.parse throws) or the text of a JSON value.                        *)
(***************************************************************************)
BlankLine == [kind |-> "blank"]
GarbageLine == [kind |-> "garbage"]
JsonLine(value) == [kind |-> "json", value |-> value]

TextBlock == Obj([type |-> S("text"), text |-> S("hi")])
BlankTextBlock == Obj([type |-> S("text"), text |-> Str(<<" ", "\t">>)])
NonStringTextBlock == Obj([type |-> S("text"), text |-> Num(1)])
ToolUseBlock(id) ==
  Obj([type |-> S("tool_use"), id |-> S(id), name |-> S("Read"),
       input |-> Obj([path |-> S("x")])])
ToolUseBlockNoId == Obj([type |-> S("tool_use"), input |-> Null])
ToolResultBlock(id, isError) ==
  Obj([type |-> S("tool_result"), tool_use_id |-> S(id), is_error |-> Bool(isError),
       content |-> S("out")])
ToolResultBlockNoId == Obj([type |-> S("tool_result"), content |-> S("out")])
ImageBlock == Obj([type |-> S("image")])
ThinkingBlock == Obj([type |-> S("thinking"), thinking |-> S("hm")])
NotABlock == S("x")

\* the fields of a message besides role and content
NoHead == NoFields
HeadTokens(id) == [id |-> S(id), usage |-> Obj([input_tokens |-> Num(5)])]
HeadCost(id) == [id |-> S(id), total_cost_usd |-> Num(2)]
HeadIdOnly(id) == [id |-> S(id)]
HeadAnonymous == [usage |-> Obj([output_tokens |-> Num(7)])]

Msg(role, content, head) == Obj([role |-> S(role), content |-> Arr(content)] @@ head)
MsgNoContent(role, head) == Obj([role |-> S(role)] @@ head)

Nest(message) == Obj([message |-> Obj([message |-> message])])
TopLine(message) == JsonLine(Obj([type |-> S("assistant"), message |-> message]))
NestedLine(message) == JsonLine(Obj([type |-> S("progress"), data |-> Nest(message)]))
BothLine(top, nested) == JsonLine(Obj([message |-> top, data |-> Nest(nested)]))

MalformedLines == {BlankLine, GarbageLine, JsonLine(Arr(<<>>))}

ToolLines ==
  { TopLine(Msg("assistant", <<ToolUseBlock("a")>>, NoHead)),
    TopLine(Msg("assistant", <<ToolUseBlock("a"), ToolResultBlock("a", FALSE)>>, NoHead)),
    TopLine(Msg("assistant", <<ToolResultBlock("a", FALSE), ToolUseBlock("a")>>, NoHead)),
    TopLine(Msg("assistant", <<TextBlock, ToolUseBlock("b")>>, HeadTokens("m1"))),
    TopLine(Msg("user", <<ToolResultBlock("a", FALSE)>>, NoHead)),
    TopLine(Msg("user", <<ToolResultBlock("a", TRUE)>>, HeadAnonymous)),
    TopLine(Msg("user", <<ToolResultBlockNoId>>, NoHead)),
    TopLine(Msg("user", <<ToolUseBlock("a")>>, NoHead)),
    TopLine(Msg("user", <<TextBlock, ImageBlock>>, HeadAnonymous)),
    TopLine(Msg("assistant", <<ThinkingBlock, BlankTextBlock, NotABlock, ToolUseBlockNoId,
                               NonStringTextBlock>>, NoHead)) }

UsageLines ==
  { TopLine(Msg("system", <<TextBlock>>, HeadTokens("m1"))),
    TopLine(MsgNoContent("assistant", HeadTokens("m1"))),
    TopLine(MsgNoContent("assistant", HeadCost("m1"))),
    TopLine(MsgNoContent("assistant", HeadIdOnly("m1"))),
    TopLine(MsgNoContent("assistant", HeadAnonymous)),
    TopLine(MsgNoContent("assistant", HeadTokens("m2"))),
    JsonLine(Obj([type |-> S("summary")])) }

NestedLines ==
  { NestedLine(Msg("assistant", <<TextBlock>>, HeadTokens("m1"))),
    BothLine(Msg("assistant", <<TextBlock>>, HeadTokens("m1")),
             Msg("assistant", <<ImageBlock>>, HeadCost("m1"))),
    BothLine(Msg("user", <<TextBlock>>, HeadIdOnly("m1")),
             Msg("assistant", <<ToolUseBlock("a")>>, HeadTokens("m1"))),
    BothLine(S("x"), Msg("user", <<ToolResultBlock("a", FALSE)>>, HeadAnonymous)) }

LineSet == MalformedLines \cup ToolLines \cup UsageLines \cup NestedLines

\* fs.readFileSync threw
Unreadable == [readable |-> FALSE, lines |-> <<>>]
FileOf(lines) == [readable |-> TRUE, lines |-> lines]
FileSet == {Unreadable} \cup {FileOf(l) : l \in UNION {[1..n -> LineSet] : n \in 0..MaxLines}}

(***************************************************************************)
(* One call of extractSessionHistoryUpdatesFromJsonl, a step per iteration *)
(* of its loops.                                                           *)
(***************************************************************************)
VARIABLES
  file,                    \* the log file the call reads
  pc,                      \* where the call is: read, line, message, block, done
  lineNo,                  \* lines taken from the file so far
  candidates,              \* the message candidates of the line still to visit
  candNo,                  \* candidates of the line visited so far
  message,                 \* the message whose content is being walked
  blockNo,                 \* content items of the message walked so far
  updates,                 \* SessionUpdate[] updates
  toolCalls,               \* Map<string, ToolCall> toolCalls (id -> address)
  emittedUsageMessageIds,  \* Set<string> emittedUsageMessageIds
  heap,                    \* the ToolCall objects created by the call
  origins,                 \* for each update, the place in the file it came from
  returned                 \* the calls that returned: the file read, the array returned

replayVars ==
  <<file, pc, lineNo, candidates, candNo, message, blockNo, updates, toolCalls,
    emittedUsageMessageIds, heap, origins, returned>>

VARIABLES
  session,                 \* the UsageSessionContext of one live session
  usageUpdate,             \* what the last usage accounting call returned
  observedTotals,          \* the total costs the calls found, in call order
  turnCosts                \* the turn costs the calls that found a total returned

usageVars == <<session, usageUpdate, observedTotals, turnCosts>>

VARIABLES
  commandLine,             \* the line handed to parseCommandEnvelope
  parsed                   \* what the call made of it

commandVars == <<commandLine, parsed>>

VARIABLES
  permPc,                  \* where the permission prompt is: requested, offered, resolved
  permRequest,             \* the tool-permission request of the agent engine
  permOptions,             \* the menu offered to the host
  permOutcome,             \* the decision of the user
  permResult               \* the PermissionResult given to the agent engine

permissionVars == <<permPc, permRequest, permOptions, permOutcome, permResult>>

VARIABLES
  tree,                    \* the directory ~/.claude/projects and what it holds
  discPc,                  \* what discovery has done: start, listed, resolved
  limit,                   \* the limit of the listing
  listed,                  \* what listRecentPersistedSessions returned
  wantedId,                \* the session id given to resolvePersistedSessionEntry
  resolved,                \* what resolvePersistedSessionEntry returned
  touched                  \* the paths resolvePersistedSessionEntry looked at

discoveryVars == <<tree, discPc, limit, listed, wantedId, resolved, touched>>

\* the variables the replay engine does not touch
nonReplayVars == <<usageVars, commandVars, permissionVars, discoveryVars>>

\* the locals of the call as a replay state
Locals ==
  [updates |-> updates, toolCalls |-> toolCalls,
   emittedUsageMessageIds |-> emittedUsageMessageIds, heap |-> heap]

\* the call goes on with the locals of st; an update st adds came from place
Becomes(st, place) ==
  /\ updates' = st.updates
  /\ toolCalls' = st.toolCalls
  /\ emittedUsageMessageIds' = st.emittedUsageMessageIds
  /\ heap' = st.heap
  /\ origins' = IF Len(st.updates) > Len(updates) THEN Append(origins, place) ELSE origins

InitReplay ==
  /\ file \in FileSet
  /\ pc = "read"
  /\ lineNo = 0
  /\ candidates = <<>>
  /\ candNo = 0
  /\ message = Null
  /\ blockNo = 0
  /\ updates = <<>>
  /\ toolCalls = EmptyMap
  /\ emittedUsageMessageIds = {}
  /\ heap = <<>>
  /\ origins = <<>>
  /\ returned = <<>>

\* lines 333-343: read the file, or return [] when it cannot be read
ReadFile ==
  /\ pc = "read"
  /\ pc' = IF file.readable THEN "line" ELSE "done"
  /\ returned' = IF file.readable THEN returned
                 ELSE Append(returned, [file |-> file, result |-> <<>>])
  /\ UNCHANGED <<file, lineNo, candidates, candNo, message, blockNo, updates, toolCalls,
                 emittedUsageMessageIds, heap, origins>>
  /\ UNCHANGED nonReplayVars

\* the record of a line, Null when the line is skipped (lines 345-358)
RecordOfLine(line) ==
  IF line.kind = "blank" THEN Null
  ELSE IF line.kind = "garbage" THEN Null
  ELSE asRecordOrNull(line.value)

\* a loop that ends at the first line it cannot use
ReadLine_StopsAtMalformed ==
  /\ pc = "line"
  /\ lineNo < Len(file.lines)
  /\ lineNo' = lineNo + 1
  /\ LET record == RecordOfLine(file.lines[lineNo + 1])
     IN IF record = Null
        THEN /\ pc' = "done"
             /\ candidates' = <<>>
             /\ returned' = Append(returned, [file |-> file, result |-> Returned(Locals)])
        ELSE /\ pc' = "message"
             /\ candidates' = persistedMessageCandidates(record)
             /\ UNCHANGED returned
  /\ candNo' = 0
  /\ UNCHANGED <<file, message, blockNo, updates, toolCalls, emittedUsageMessageIds,
                 heap, origins>>
  /\ UNCHANGED nonReplayVars

\* lines 344-359: take the next line
ReadLine ==
  /\ pc = "line"
  /\ lineNo < Len(file.lines)
  /\ lineNo' = lineNo + 1
  /\ LET record == RecordOfLine(file.lines[lineNo + 1])
     IN IF record = Null
        THEN pc' = "line" /\ candidates' = <<>>
        ELSE pc' = "message" /\ candidates' = persistedMessageCandidates(record)
  /\ candNo' = 0
  /\ UNCHANGED <<file, message, blockNo, updates, toolCalls, emittedUsageMessageIds,
                 heap, origins, returned>>
  /\ UNCHANGED nonReplayVars

\* lines 359-364: take the next message candidate of the line
NextMessage ==
  /\ pc = "message"
  /\ candidates # <<>>
  /\ candidates' = Tail(candidates)
  /\ candNo' = candNo + 1
  /\ message' = Head(candidates)
  /\ blockNo' = 0
  /\ pc' = IF QualifyingRole(Head(candidates)) THEN "block" ELSE "message"
  /\ UNCHANGED <<file, lineNo, updates, toolCalls, emittedUsageMessageIds, heap, origins,
                 returned>>
  /\ UNCHANGED nonReplayVars

\* the loop over the candidates of the line is over
EndLine ==
  /\ pc = "message"
  /\ candidates = <<>>
  /\ pc' = "line"
  /\ UNCHANGED <<file, lineNo, candidates, candNo, message, blockNo, updates, toolCalls,
                 emittedUsageMessageIds, heap, origins, returned>>
  /\ UNCHANGED nonReplayVars

\* lines 365-389: walk one content item
Block ==
  /\ pc = "block"
  /\ blockNo < Len(ContentOf(message))
  /\ blockNo' = blockNo + 1
  /\ Becomes(ProcessBlock(Locals, Get(message, "role").s, ContentOf(message)[blockNo + 1]),
             <<lineNo, candNo, blockNo + 1>>)
  /\ UNCHANGED <<file, pc, lineNo, candidates, candNo, message, returned>>
  /\ UNCHANGED nonReplayVars

\* line 390: the usage update of the message
EndMessage ==
  /\ pc = "block"
  /\ blockNo = Len(ContentOf(message))
  /\ Becomes(pushResumeUsageUpdate(Locals, message), <<lineNo, candNo, blockNo + 1>>)
  /\ pc' = "message"
  /\ UNCHANGED <<file, lineNo, candidates, candNo, message, blockNo, returned>>
  /\ UNCHANGED nonReplayVars

\* line 393: return updates
Return ==
  /\ pc = "line"
  /\ lineNo = Len(file.lines)
  /\ pc' = "done"
  /\ returned' = Append(returned, [file |-> file, result |-> Returned(Locals)])
  /\ UNCHANGED <<file, lineNo, candidates, candNo, message, blockNo, updates, toolCalls,
                 emittedUsageMessageIds, heap, origins>>
  /\ UNCHANGED nonReplayVars

\* the lines of a log without its blank and malformed lines
Clean(lines) == SelectSeq(lines, LAMBDA line : RecordOfLine(line) # Null)

\* the files a later call may be given after a call on f
LaterFiles(f) == {f, FileOf(Clean(f.lines))}

\* a later call that goes on with the tool calls and the usage ids of the
\* calls before it
Call_KeepsState ==
  /\ pc = "done"
  /\ Len(returned) < MaxCalls
  /\ file' \in LaterFiles(file)
  /\ pc' = "read"
  /\ lineNo' = 0
  /\ candidates' = <<>>
  /\ candNo' = 0
  /\ message' = Null
  /\ blockNo' = 0
  /\ updates' = <<>>
  /\ origins' = <<>>
  /\ UNCHANGED <<toolCalls, emittedUsageMessageIds, heap, returned>>
  /\ UNCHANGED nonReplayVars

\* the host calls extractSessionHistoryUpdatesFromJsonl again: lines 340-342
\* give the call new locals
Call ==
  /\ pc = "done"
  /\ Len(returned) < MaxCalls
  /\ file' \in LaterFiles(file)
  /\ pc' = "read"
  /\ lineNo' = 0
  /\ candidates' = <<>>
  /\ candNo' = 0
  /\ message' = Null
  /\ blockNo' = 0
  /\ updates' = <<>>
  /\ toolCalls' = EmptyMap
  /\ emittedUsageMessageIds' = {}
  /\ heap' = <<>>
  /\ origins' = <<>>
  /\ UNCHANGED returned
  /\ UNCHANGED nonReplayVars

NextReplay ==
  ReadFile \/ ReadLine \/ NextMessage \/ EndLine \/ Block \/ EndMessage \/ Return \/ Call

vars == <<replayVars, usageVars, commandVars, permissionVars, discoveryVars>>

\* the replay engine is not running
IdleReplay ==
  /\ file = Unreadable
  /\ pc = "idle"
  /\ lineNo = 0
  /\ candidates = <<>>
  /\ candNo = 0
  /\ message = Null
  /\ blockNo = 0
  /\ updates = <<>>
  /\ toolCalls = EmptyMap
  /\ emittedUsageMessageIds = {}
  /\ heap = <<>>
  /\ origins = <<>>
  /\ returned = <<>>

(***************************************************************************)
(* Usage accounting for one live session: the driver of the session calls  *)
(* buildUsageUpdateFromResultForSession once per result message, one call  *)
(* at a time, always with the same session context.                        *)
(***************************************************************************)
\* the ways a result message carries its total cost
CostFields ==
  {NoFields}
    \cup {[total_cost_usd |-> Num(c)] : c \in {0 - 1, 0, 2, 3, 5}}
    \cup {[totalCostUsd |-> Num(3)],
          [total_cost_usd |-> S("2"), totalCostUsd |-> Num(5)],
          [total_cost_usd |-> Infinite]}

\* the ways a result message carries its token counts and model usage
TokenFields ==
  {NoFields,
   [usage |-> Obj([input_tokens |-> Num(5), outputTokens |-> Num(7)])],
   [usage |-> Obj([inputTokens |-> Num(4), input_tokens |-> Num(5)]),
    model |-> S("haiku"),
    modelUsage |-> Obj([opus |-> Obj([contextWindow |-> Num(200)]),
                        haiku |-> Obj([context_window |-> Num(100),
                                       maxOutputTokens |-> Num(8)]),
                        sonnet |-> Null])]}

ResultMessages == {Obj([type |-> S("result")] @@ c @@ u) : c \in CostFields, u \in TokenFields}

InitUsage ==
  /\ session \in {Session(Undefined, Undefined), Session(S("opus"), Undefined)}
  /\ usageUpdate = Null
  /\ observedTotals = <<>>
  /\ turnCosts = <<>>

IdleUsage ==
  /\ session = NoSession
  /\ usageUpdate = Null
  /\ observedTotals = <<>>
  /\ turnCosts = <<>>

\* the total cost a call finds in a message (line 276)
ObservedTotal(resultMessage) == numberField(resultMessage, <<"total_cost_usd", "totalCostUsd">>)

\* one call of buildUsageUpdateFromResultForSession(session, resultMessage)
UsageCall ==
  /\ Len(observedTotals) < MaxObserved
  /\ \E resultMessage \in ResultMessages :
       LET call == buildUsageUpdateFromResultForSession(session, resultMessage)
       IN /\ session' = call.session
          /\ usageUpdate' = call.update
          /\ IF ObservedTotal(resultMessage) # Undefined
             THEN /\ observedTotals' = Append(observedTotals, ObservedTotal(resultMessage))
                  /\ turnCosts' = Append(turnCosts, Get(Obj(call.update.usage), "turn_cost_usd"))
             ELSE UNCHANGED <<observedTotals, turnCosts>>
  /\ UNCHANGED <<replayVars, commandVars, permissionVars, discoveryVars>>

(***************************************************************************)
(* The command channel: the host writes one line, the bridge parses it     *)
(* with parseCommandEnvelope.  The parser keeps no state between lines.    *)
(***************************************************************************)
\* what a host may put where a string, a boolean or a metadata object belongs
StringValues == {Undefined, Null, S("v"), Num(1)}
BooleanValues == {Undefined, Bool(TRUE), Bool(FALSE), S("true")}
MetadataValues == {Undefined, Null, Obj([client |-> S("tui")]), Arr(<<>>), S("x")}

\* elements of a chunks array, well-formed and not
Chunks ==
  {Obj([kind |-> S("text"), value |-> S("hi")]),
   Obj([kind |-> S("image"), value |-> Obj([data |-> S("AAAA")])]),
   Obj([kind |-> S("text"), value |-> Null]),
   Obj([kind |-> S("text"), value |-> S("hi"), cache |-> Bool(TRUE)]),
   Obj([kind |-> S("text")]),
   Obj([kind |-> Num(1), value |-> S("hi")]),
   S("hi")}

SeqsUpTo(set, n) == UNION {[1..k -> set] : k \in 0..n}

ChunksValues ==
  {Undefined, Null, S("hi"), Obj([kind |-> S("text"), value |-> S("hi")])}
    \cup {Arr(chunks) : chunks \in SeqsUpTo(Chunks, MaxChunks)}

OutcomeValues ==
  {Undefined, S("selected"),
   Obj([outcome |-> S("selected"), option_id |-> S("allow_once")]),
   Obj([outcome |-> S("selected")]),
   Obj([outcome |-> S("selected"), option_id |-> Num(1)]),
   Obj([outcome |-> S("cancelled")]),
   Obj([outcome |-> S("cancelled"), option_id |-> S("allow_once")]),
   Obj([outcome |-> S("rejected")]),
   Obj([outcome |-> Num(1)])}

\* the fields of an envelope, by command
EnvelopeFields ==
  {Field("command", S("initialize")) @@ Field("cwd", cwd) @@ Field("metadata", metadata) :
     cwd \in StringValues, metadata \in MetadataValues}
  \cup
  {Field("command", S("create_session")) @@ Field("cwd", cwd) @@ Field("yolo", yolo)
     @@ Field("model", model) @@ Field("resume", resume) @@ Field("metadata", metadata) :
     cwd \in StringValues, yolo \in BooleanValues, model \in StringValues,
     resume \in StringValues,
     metadata \in MetadataValues}
  \cup
  {Field("command", S("load_session")) @@ Field("session_id", sessionId)
     @@ Field("metadata", metadata) :
     sessionId \in StringValues, metadata \in MetadataValues}
  \cup
  {Field("command", S("new_session")) @@ Field("cwd", cwd) @@ Field("yolo", yolo)
     @@ Field("model", model) :
     cwd \in StringValues, yolo \in BooleanValues, model \in StringValues}
  \cup
  {Field("command", S("prompt")) @@ Field("session_id", sessionId) @@ Field("chunks", chunks) :
     sessionId \in StringValues, chunks \in ChunksValues}
  \cup
  {Field("command", S("cancel_turn")) @@ Field("session_id", sessionId) :
     sessionId \in StringValues}
  \cup
  {Field("command", S("set_model")) @@ Field("session_id", sessionId) @@ Field("model", model) :
     sessionId \in StringValues, model \in StringValues}
  \cup
  {Field("command", S("set_mode")) @@ Field("session_id", sessionId) @@ Field("mode", mode) :
     sessionId \in StringValues, mode \in StringValues}
  \cup
  {Field("command", S("permission_response")) @@ Field("session_id", sessionId)
     @@ Field("tool_call_id", toolCallId) @@ Field("outcome", outcome) :
     sessionId \in StringValues, toolCallId \in StringValues, outcome \in OutcomeValues}
  \cup
  {Field("command", command) @@ Field("session_id", sessionId) :
     command \in {S("shutdown"), S("bogus"), S(""), Str(<<"set", "_mode">>), Str(<<"prompt", " ">>),
                  Num(1), Null, Bool(TRUE), Undefined},
     sessionId \in {Undefined, S("v")}}

RequestIds == {Undefined, S("r1"), Num(7)}

CommandLines ==
  {BlankLine, GarbageLine, JsonLine(Null), JsonLine(Num(1)), JsonLine(S("shutdown")),
   JsonLine(Arr(<<Obj([command |-> S("shutdown")])>>))}
    \cup {JsonLine(Obj(Field("request_id", requestId) @@ fields)) :
            requestId \in RequestIds, fields \in EnvelopeFields}

\* no line has been parsed yet
Pending == [pending |-> TRUE]

InitCommand ==
  /\ commandLine \in CommandLines
  /\ parsed = Pending

IdleCommand ==
  /\ commandLine = BlankLine
  /\ parsed = Pending

\* the bridge parses the line it has read
ParseEnvelope ==
  /\ parsed = Pending
  /\ parsed' = parseCommandEnvelope(commandLine)
  /\ UNCHANGED <<commandLine, replayVars, usageVars, permissionVars, discoveryVars>>

(***************************************************************************)
(* permissions.ts: permission negotiation.  A suggestion is a               *)
(* PermissionUpdate; a list of suggestions may be absent (undefined).       *)
(***************************************************************************)
SESSION_PERMISSION_DESTINATIONS == {"session", "cliArg"}
PERSISTENT_PERMISSION_DESTINATIONS == {"userSettings", "projectSettings", "localSettings"}

\* suggestions?: PermissionUpdate[]
NoSuggestions == [given |-> FALSE, items |-> <<>>]
Suggestions(items) == [given |-> TRUE, items |-> items]

\* a split that drops the suggestions of an unrecognized destination
splitPermissionSuggestionsByScope_DropsUnknown(suggestions) ==
  [session |-> SelectSeq(suggestions.items,
                         LAMBDA suggestion :
                           suggestion.destination \in SESSION_PERMISSION_DESTINATIONS),
   persistent |-> SelectSeq(suggestions.items,
                            LAMBDA suggestion :
                              suggestion.destination \in PERSISTENT_PERMISSION_DESTINATIONS)]

splitPermissionSuggestionsByScope(suggestions) ==
  IF ~suggestions.given \/ Len(suggestions.items) = 0
  THEN [session |-> <<>>, persistent |-> <<>>]
  ELSE [session |-> SelectSeq(suggestions.items,
                              LAMBDA suggestion :
                                \/ suggestion.destination \in SESSION_PERMISSION_DESTINATIONS
                                \/ suggestion.destination \notin PERSISTENT_PERMISSION_DESTINATIONS),
        persistent |-> SelectSeq(suggestions.items,
                                 LAMBDA suggestion :
                                   /\ suggestion.destination \notin SESSION_PERMISSION_DESTINATIONS
                                   /\ suggestion.destination \in PERSISTENT_PERMISSION_DESTINATIONS)]

PermissionOption(id, name) == [option_id |-> id, name |-> name, kind |-> id]

\* a menu that offers the session option whenever a session suggestion exists
permissionOptionsFromSuggestions_IgnoresPersistent(suggestions) ==
  LET scoped == splitPermissionSuggestionsByScope(suggestions)
      sessionOnly == Len(scoped.session) > 0
  IN <<PermissionOption("allow_once", "Allow once"),
       IF sessionOnly THEN PermissionOption("allow_session", "Allow for session")
       ELSE PermissionOption("allow_always", "Always allow"),
       PermissionOption("reject_once", "Deny")>>

permissionOptionsFromSuggestions(suggestions) ==
  LET scoped == splitPermissionSuggestionsByScope(suggestions)
      hasSessionScoped == Len(scoped.session) > 0
      hasPersistentScoped == Len(scoped.persistent) > 0
      sessionOnly == hasSessionScoped /\ ~hasPersistentScoped
  IN <<PermissionOption("allow_once", "Allow once"),
       IF sessionOnly THEN PermissionOption("allow_session", "Allow for session")
       ELSE PermissionOption("allow_always", "Always allow"),
       PermissionOption("reject_once", "Deny")>>

\* { behavior: "allow", updatedInput, ...(updates non-empty ? { updatedPermissions } : {}), toolUseID }
AllowResult(inputData, toolCallId, updatedPermissions) ==
  [behavior |-> "allow", updatedInput |-> inputData, toolUseID |-> toolCallId]
    @@ (IF Len(updatedPermissions) > 0
        THEN [k \in {"updatedPermissions"} |-> updatedPermissions]
        ELSE NoFields)

DenyResult(text, toolCallId) == [behavior |-> "deny", message |-> text, toolUseID |-> toolCallId]

\* the rule synthesized for a tool when no session suggestion came with the request
SessionRuleFor(toolName) ==
  [type |-> "addRules", rules |-> <<[toolName |-> toolName]>>, behavior |-> "allow",
   destination |-> "session"]

\* an allow_once that attaches the session suggestions
AllowOnce_AttachesSession(scopedSuggestions, toolCallId, inputData, toolName) ==
  AllowResult(inputData, toolCallId, scopedSuggestions.session)

\* lines 89-91
AllowOnce(scopedSuggestions, toolCallId, inputData, toolName) ==
  [behavior |-> "allow", updatedInput |-> inputData, toolUseID |-> toolCallId]

\* lines 92-115
\* an allow_session that adds a rule for the tool to the session suggestions
AllowSession_AddsRule(scopedSuggestions, toolCallId, inputData, toolName) ==
  AllowResult(inputData, toolCallId,
              IF Truthy(toolName)
              THEN Append(scopedSuggestions.session, SessionRuleFor(toolName))
              ELSE scopedSuggestions.session)

AllowSession(scopedSuggestions, toolCallId, inputData, toolName) ==
  LET sessionSuggestions == scopedSuggestions.session
      fallbackSuggestions ==
        IF Len(sessionSuggestions) > 0 THEN sessionSuggestions
        ELSE IF Truthy(toolName) THEN <<SessionRuleFor(toolName)>>
        ELSE <<>>
  IN AllowResult(inputData, toolCallId, fallbackSuggestions)

\* an allow_always that falls back as allow_session does
AllowAlways_SessionFallback(scopedSuggestions, toolCallId, inputData, toolName) ==
  IF Len(scopedSuggestions.persistent) > 0
  THEN AllowResult(inputData, toolCallId, scopedSuggestions.persistent)
  ELSE AllowSession(scopedSuggestions, toolCallId, inputData, toolName)

\* lines 116-126
AllowAlways(scopedSuggestions, toolCallId, inputData, toolName) ==
  AllowResult(inputData, toolCallId, scopedSuggestions.persistent)

\* a resolution that allows every option id it does not know
permissionResultFromOutcome_AllowsByDefault(decision, toolCallId, inputData, suggestions, toolName) ==
  LET scopedSuggestions == splitPermissionSuggestionsByScope(suggestions)
  IN IF decision.outcome = "selected"
     THEN IF decision.option_id = "allow_session"
          THEN AllowSession(scopedSuggestions, toolCallId, inputData, toolName)
          ELSE IF decision.option_id = "allow_always"
          THEN AllowAlways(scopedSuggestions, toolCallId, inputData, toolName)
          ELSE IF decision.option_id = "reject_once"
          THEN DenyResult("Permission denied", toolCallId)
          ELSE AllowOnce(scopedSuggestions, toolCallId, inputData, toolName)
     ELSE DenyResult("Permission cancelled", toolCallId)

permissionResultFromOutcome(decision, toolCallId, inputData, suggestions, toolName) ==
  LET scopedSuggestions == splitPermissionSuggestionsByScope(suggestions)
  IN IF decision.outcome = "selected"
     THEN IF decision.option_id = "allow_once"
          THEN AllowOnce(scopedSuggestions, toolCallId, inputData, toolName)
          ELSE IF decision.option_id = "allow_session"
          THEN AllowSession(scopedSuggestions, toolCallId, inputData, toolName)
          ELSE IF decision.option_id = "allow_always"
          THEN AllowAlways(scopedSuggestions, toolCallId, inputData, toolName)
          ELSE DenyResult("Permission denied", toolCallId)
     ELSE DenyResult("Permission cancelled", toolCallId)

(***************************************************************************)
(* One permission prompt: the agent engine asks for a decision on a tool   *)
(* use, the bridge offers the menu, the host answers with an outcome, the  *)
(* bridge resolves it.                                                     *)
(***************************************************************************)
AddRules(destination, tool) ==
  [type |-> "addRules", rules |-> <<[toolName |-> S(tool)]>>, behavior |-> "allow",
   destination |-> destination]
SetMode(destination) == [type |-> "setMode", mode |-> "acceptEdits", destination |-> destination]

\* the suggestions the agent engine may send
SuggestionPool ==
  {AddRules("session", "Bash"), AddRules("session", "Read"), AddRules("cliArg", "Bash"),
   AddRules("userSettings", "Bash"), AddRules("projectSettings", "Bash"),
   AddRules("localSettings", "Read"), AddRules("policySettings", "Bash"),
   SetMode("session"), SetMode("localSettings")}

SuggestionLists ==
  {NoSuggestions} \cup {Suggestions(items) : items \in SeqsUpTo(SuggestionPool, MaxSuggestions)}

ToolNames == {Undefined, Str(<<>>), S("Bash")}

Requests ==
  {[toolCallId |-> "t1", inputData |-> inputData, suggestions |-> suggestions,
    toolName |-> toolName] :
     inputData \in {EmptyObj, Obj([path |-> S("x")])},
     suggestions \in SuggestionLists, toolName \in ToolNames}

\* the outcomes a host may answer with: the option ids of the menus and others
Outcomes ==
  {[outcome |-> "cancelled"]}
    \cup {[outcome |-> "selected", option_id |-> id] :
            id \in {"allow_once", "allow_session", "allow_always", "reject_once",
                    "allow", "Allow_Once", ""}}

NoOutcome == [outcome |-> "none"]
NoResult == [behavior |-> "none"]

InitPermission ==
  /\ permPc = "requested"
  /\ permRequest \in Requests
  /\ permOptions = <<>>
  /\ permOutcome = NoOutcome
  /\ permResult = NoResult

IdlePermission ==
  /\ permPc = "idle"
  /\ permRequest = [toolCallId |-> "t1", inputData |-> EmptyObj,
                    suggestions |-> NoSuggestions, toolName |-> Undefined]
  /\ permOptions = <<>>
  /\ permOutcome = NoOutcome
  /\ permResult = NoResult

\* the bridge builds the menu for the host
OfferOptions ==
  /\ permPc = "requested"
  /\ permPc' = "offered"
  /\ permOptions' = permissionOptionsFromSuggestions(permRequest.suggestions)
  /\ UNCHANGED <<permRequest, permOutcome, permResult, replayVars, usageVars, commandVars,
                 discoveryVars>>

\* the host answers and the bridge resolves the answer
Resolve ==
  /\ permPc = "offered"
  /\ permPc' = "resolved"
  /\ permOutcome' \in Outcomes
  /\ permResult' = permissionResultFromOutcome(permOutcome', permRequest.toolCallId,
                                               permRequest.inputData, permRequest.suggestions,
                                               permRequest.toolName)
  /\ UNCHANGED <<permRequest, permOptions, replayVars, usageVars, commandVars, discoveryVars>>

NextPermission == OfferOptions \/ Resolve

(***************************************************************************)
(* history.ts: session discovery.  The tree is the directory               *)
(* ~/.claude/projects: project directories in the order readdir lists      *)
(* them, each with its entries in that order.  A name is a sequence of     *)
(* tokens, a path the sequence of names below the root.  Entries are       *)
(* modelled with session_id, cwd, file_path and sort_ms; title and         *)
(* updated_at are derived from the same file and take no part in which     *)
(* entries are returned.                                                   *)
(***************************************************************************)
StatFails == [ok |-> FALSE, mtimeMs |-> 0]
StatAt(mtimeMs) == [ok |-> TRUE, mtimeMs |-> mtimeMs]

\* lines 65-107, the cwd of the preview: the cwd of the first record whose
\* cwd is a string that is not blank, Undefined when there is none
RECURSIVE FirstCwd(_)
FirstCwd(logLines) ==
  IF logLines = <<>> THEN Undefined
  ELSE LET logRecord == RecordOfLine(Head(logLines))
       IN IF /\ logRecord # Null
             /\ IsString(Get(logRecord, "cwd"))
             /\ Len(Trim(Get(logRecord, "cwd").s)) > 0
          THEN Get(logRecord, "cwd")
          ELSE FirstCwd(Tail(logLines))

extractSessionPreviewFromJsonl(log) ==
  IF ~log.readable THEN [cwd |-> Undefined] ELSE [cwd |-> FirstCwd(log.lines)]

\* preview.cwd?.trim(), the empty string standing for undefined as well
PreviewCwd(log) ==
  IF extractSessionPreviewFromJsonl(log).cwd = Undefined THEN <<>>
  ELSE Trim(extractSessionPreviewFromJsonl(log).cwd.s)

\* what a path below the root leads to: an entry of a project directory, or
\* nothing
Dirent(name, isFile, stat, log) ==
  [name |-> name, isFile |-> isFile, exists |-> TRUE, stat |-> stat, log |-> log]
NoDirent == [name |-> <<>>, isFile |-> FALSE, exists |-> FALSE, stat |-> StatFails,
             log |-> Unreadable]
DirentAt(root, filePath) ==
  IF Len(filePath) = 2
       /\ \E d \in DOMAIN root.dirs :
            /\ root.dirs[d].name = filePath[1]
            /\ \E e \in DOMAIN root.dirs[d].entries : root.dirs[d].entries[e].name = filePath[2]
  THEN LET d == CHOOSE d \in DOMAIN root.dirs : root.dirs[d].name = filePath[1]
           e == CHOOSE e \in DOMAIN root.dirs[d].entries :
                  root.dirs[d].entries[e].name = filePath[2]
       IN root.dirs[d].entries[e]
  ELSE NoDirent

\* fs.readFileSync(filePath): a directory cannot be read as a file
ReadLog(root, filePath) ==
  IF DirentAt(root, filePath).isFile THEN DirentAt(root, filePath).log ELSE Unreadable

\* sessionFile.name.slice(0, -".jsonl".length)
Front(tokens) == SubSeq(tokens, 1, Len(tokens) - 1)
EndsWithJsonl(name) == Len(name) > 0 /\ name[Len(name)] = ".jsonl"

\* lines 135-156: the candidate of one entry of a project directory, if any
CandidatesOfEntry(dirName, dirent) ==
  IF /\ dirent.isFile
     /\ EndsWithJsonl(dirent.name)
     /\ Front(dirent.name) # <<>>
     /\ dirent.stat.ok
     /\ dirent.stat.mtimeMs > 0
  THEN <<[session_id |-> Front(dirent.name), cwd |-> <<>>,
          file_path |-> <<dirName, dirent.name>>, sort_ms |-> dirent.stat.mtimeMs]>>
  ELSE <<>>

RECURSIVE CandidatesOfEntries(_, _)
CandidatesOfEntries(dirName, dirents) ==
  IF dirents = <<>> THEN <<>>
  ELSE CandidatesOfEntry(dirName, Head(dirents)) \o CandidatesOfEntries(dirName, Tail(dirents))

\* lines 123-157: a project directory that cannot be listed has no session files
RECURSIVE CandidatesOfDirs(_)
CandidatesOfDirs(projectDirs) ==
  IF projectDirs = <<>> THEN <<>>
  ELSE (IF Head(projectDirs).listable
        THEN CandidatesOfEntries(Head(projectDirs).name, Head(projectDirs).entries)
        ELSE <<>>)
         \o CandidatesOfDirs(Tail(projectDirs))

\* a sort that leaves the candidates in the order of the directory listing
SortBySortMs_Unsorted(entries) == entries

\* candidates.sort((a, b) => b.sort_ms - a.sort_ms): descending and stable
RECURSIVE SortBySortMs(_)
SortBySortMs(entries) ==
  IF entries = <<>> THEN <<>>
  ELSE LET sorted == SortBySortMs(Front(entries))
           last == entries[Len(entries)]
           k == Cardinality({i \in DOMAIN sorted : sorted[i].sort_ms >= last.sort_ms})
       IN SubSeq(sorted, 1, k) \o <<last>> \o SubSeq(sorted, k + 1, Len(sorted))

\* lines 162-185: the loop over the sorted candidates
RECURSIVE Dedupe(_, _, _, _, _)
Dedupe(root, sorted, seen, deduped, max) ==
  IF sorted = <<>> THEN deduped
  ELSE LET candidate == Head(sorted)
           cwd == PreviewCwd(ReadLog(root, candidate.file_path))
           pushed == Append(deduped, [candidate EXCEPT !.cwd = cwd])
       IN IF candidate.session_id \in seen
          THEN Dedupe(root, Tail(sorted), seen, deduped, max)
          ELSE IF cwd = <<>>
          THEN Dedupe(root, Tail(sorted), seen \cup {candidate.session_id}, deduped, max)
          ELSE IF Len(pushed) >= max
          THEN pushed
          ELSE Dedupe(root, Tail(sorted), seen \cup {candidate.session_id}, pushed, max)

listRecentPersistedSessions(root, max) ==
  IF ~root.exists THEN <<>>
  ELSE IF ~root.listable THEN <<>>
  ELSE Dedupe(root, SortBySortMs(CandidatesOfDirs(root.dirs)), {}, <<>>, max)

\* an id check that only rejects the empty id
IsRejectedId_EmptyOnly(sessionId) == Len(sessionId) = 0

\* lines 190-197: the ids resolvePersistedSessionEntry does not look up
IsRejectedId(sessionId) ==
  IF Len(Trim(sessionId)) = 0 THEN TRUE
  ELSE IF \E i \in DOMAIN sessionId : sessionId[i] = "/" THEN TRUE
  ELSE IF \E i \in DOMAIN sessionId : sessionId[i] = "\\" THEN TRUE
  ELSE \E i \in DOMAIN sessionId :
         IF sessionId[i] = ".." THEN TRUE
         ELSE sessionId[i] = "." /\ i < Len(sessionId) /\ sessionId[i + 1] = "."

\* the names a path is made of: the tokens between the separators
RECURSIVE Segments(_)
Segments(tokens) ==
  IF \A i \in DOMAIN tokens : tokens[i] # "/" THEN <<tokens>>
  ELSE LET k == CHOOSE i \in DOMAIN tokens :
                  tokens[i] = "/" /\ \A j \in 1..(i - 1) : tokens[j] # "/"
       IN <<SubSeq(tokens, 1, k - 1)>> \o Segments(SubSeq(tokens, k + 1, Len(tokens)))

\* path.join below the root: "." and empty names are dropped, ".." takes the
\* last name away, or leads one level above the root when none is left
RECURSIVE Normalize(_, _)
Normalize(path, segments) ==
  IF segments = <<>> THEN path
  ELSE IF Head(segments) = <<>> THEN Normalize(path, Tail(segments))
  ELSE IF Head(segments) = <<".">> THEN Normalize(path, Tail(segments))
  ELSE IF Head(segments) = <<"..">>
       THEN IF path.names = <<>>
            THEN Normalize([path EXCEPT !.up = @ + 1], Tail(segments))
            ELSE Normalize([path EXCEPT !.names = Front(@)], Tail(segments))
  ELSE Normalize([path EXCEPT !.names = Append(@, Head(segments))], Tail(segments))

\* path.join(root, dirent.name, `${sessionId}.jsonl`)
SessionFilePath(dirName, sessionId) ==
  Normalize([up |-> 0, names |-> <<dirName>>], Segments(sessionId \o <<".jsonl">>))

\* what the path leads to
DirentOf(root, path) == IF path.up = 0 THEN DirentAt(root, path.names) ELSE NoDirent

\* resolvePersistedSessionEntry returns null
NoEntry == [found |-> FALSE]

\* a choice of the best match that keeps the first match
IsBetter_FirstWins(best, mtimeMs) == best = NoEntry

\* !best || mtimeMs >= best.sort_ms
IsBetter(best, mtimeMs) == IF best = NoEntry THEN TRUE ELSE mtimeMs >= best.sort_ms

\* lines 211-236: the loop over the project directories
RECURSIVE BestMatch(_, _, _, _)
BestMatch(root, projectDirs, sessionId, best) ==
  IF projectDirs = <<>> THEN best
  ELSE LET filePath == SessionFilePath(Head(projectDirs).name, sessionId)
           dirent == DirentOf(root, filePath)
           cwd == PreviewCwd(IF dirent.isFile THEN dirent.log ELSE Unreadable)
           mtimeMs == IF dirent.stat.ok THEN dirent.stat.mtimeMs ELSE 0
       IN IF ~dirent.exists
          THEN BestMatch(root, Tail(projectDirs), sessionId, best)
          ELSE IF cwd = <<>>
          THEN BestMatch(root, Tail(projectDirs), sessionId, best)
          ELSE IF IsBetter(best, mtimeMs)
          THEN BestMatch(root, Tail(projectDirs), sessionId,
                         [session_id |-> sessionId, cwd |-> cwd, file_path |-> filePath.names,
                          sort_ms |-> mtimeMs])
          ELSE BestMatch(root, Tail(projectDirs), sessionId, best)

resolvePersistedSessionEntry(root, sessionId) ==
  IF IsRejectedId(sessionId) THEN NoEntry
  ELSE IF ~root.exists THEN NoEntry
  ELSE IF ~root.listable THEN NoEntry
  ELSE BestMatch(root, root.dirs, sessionId, NoEntry)

\* the paths a call of resolvePersistedSessionEntry hands to fs.existsSync
PathsLookedAt(root, sessionId) ==
  IF IsRejectedId(sessionId) THEN {}
  ELSE IF ~root.exists THEN {}
  ELSE IF ~root.listable THEN {}
  ELSE {SessionFilePath(root.dirs[d].name, sessionId) : d \in DOMAIN root.dirs}

(***************************************************************************)
(* Discovery on a tree: the host lists the recent sessions, or resolves a  *)
(* session id.                                                             *)
(***************************************************************************)
\* logs with a cwd, with a cwd behind lines that have none, and without one
LogW == FileOf(<<JsonLine(Obj([cwd |-> S("/w")]))>>)
LogV == FileOf(<<GarbageLine, JsonLine(Obj([cwd |-> Str(<<" ">>)])),
                 JsonLine(Obj([cwd |-> Str(<<" ", "/v", " ">>)]))>>)
LogNoCwd == FileOf(<<JsonLine(Obj([cwd |-> Num(1)])), JsonLine(Obj([type |-> S("user")]))>>)

SessionFile(id, stat, log) == Dirent(<<id, ".jsonl">>, TRUE, stat, log)

\* the entries a project directory may hold
DirentPool ==
  {SessionFile("a", StatAt(2), LogW), SessionFile("a", StatAt(1), LogV),
   SessionFile("a", StatAt(2), LogNoCwd), SessionFile("a", StatFails, LogW),
   SessionFile("a", StatAt(0), LogW),
   SessionFile("b", StatAt(2), LogW), SessionFile("b", StatAt(1), Unreadable),
   SessionFile("c", StatAt(3), LogV),
   Dirent(<<".jsonl">>, TRUE, StatAt(3), LogW),
   Dirent(<<"a", ".txt">>, TRUE, StatAt(3), LogW),
   Dirent(<<"b", ".jsonl">>, FALSE, StatAt(3), Unreadable),
   Dirent(<<"c", "..", ".jsonl">>, TRUE, StatAt(1), LogW)}

ProjectDirNames == <<<<"p1">>, <<"p2">>>>

\* entries put into the project directories one after the other
Placements ==
  SeqsUpTo([dir : {ProjectDirNames[d] : d \in DOMAIN ProjectDirNames}, dirent : DirentPool],
           MaxFiles)

EntriesIn(placement, dirName) ==
  LET placed == SelectSeq(placement, LAMBDA put : put.dir = dirName)
  IN [i \in DOMAIN placed |-> placed[i].dirent]

\* no directory holds two entries of one name
IsTree(placement) ==
  \A i, j \in DOMAIN placement :
    (i # j /\ placement[i].dir = placement[j].dir)
      => placement[i].dirent.name # placement[j].dirent.name

TreeOf(placement, unlistable) ==
  [exists |-> TRUE, listable |-> TRUE,
   dirs |-> [d \in DOMAIN ProjectDirNames |->
               [name |-> ProjectDirNames[d],
                listable |-> ProjectDirNames[d] \notin unlistable,
                entries |-> EntriesIn(placement, ProjectDirNames[d])]]]

NoRoot == [exists |-> FALSE, listable |-> FALSE, dirs |-> <<>>]
UnlistableRoot == [exists |-> TRUE, listable |-> FALSE, dirs |-> <<>>]

Trees ==
  {NoRoot, UnlistableRoot}
    \cup {TreeOf(placement, unlistable) :
            placement \in {pl \in Placements : IsTree(pl)},
            unlistable \in {{}, {<<"p2">>}}}

\* the ids a host may ask for
SessionIds ==
  {<<>>, <<" ">>, <<"a">>, <<"b">>, <<"c">>, <<"d">>, <<"..">>, <<".", ".">>,
   <<"..", "/", "p1", "/", "a">>, <<"..", "/", "..", "/", "a">>, <<"p1", "\\", "a">>,
   <<"/", "a">>, <<".">>, <<" ", "a">>}

InitDiscovery ==
  /\ tree \in Trees
  /\ discPc = "start"
  /\ limit = 0
  /\ listed = <<>>
  /\ wantedId = <<>>
  /\ resolved = NoEntry
  /\ touched = {}

IdleDiscovery ==
  /\ tree = NoRoot
  /\ discPc = "idle"
  /\ limit = 0
  /\ listed = <<>>
  /\ wantedId = <<>>
  /\ resolved = NoEntry
  /\ touched = {}

\* the host asks for the recent sessions
ListSessions ==
  /\ discPc = "start"
  /\ discPc' = "listed"
  /\ limit' \in 0..MaxLimit
  /\ listed' = listRecentPersistedSessions(tree, limit')
  /\ UNCHANGED <<tree, wantedId, resolved, touched>>
  /\ UNCHANGED <<replayVars, usageVars, commandVars, permissionVars>>

\* the host asks for the session of an id
ResolveSession ==
  /\ discPc = "start"
  /\ discPc' = "resolved"
  /\ wantedId' \in SessionIds
  /\ resolved' = resolvePersistedSessionEntry(tree, wantedId')
  /\ touched' = PathsLookedAt(tree, wantedId')
  /\ UNCHANGED <<tree, limit, listed>>
  /\ UNCHANGED <<replayVars, usageVars, commandVars, permissionVars>>

\* the host asks for the session of an id that the listing gave it
ResolveListed ==
  /\ discPc = "listed"
  /\ discPc' = "resolved"
  /\ wantedId' \in {listed[i].session_id : i \in DOMAIN listed}
  /\ resolved' = resolvePersistedSessionEntry(tree, wantedId')
  /\ touched' = PathsLookedAt(tree, wantedId')
  /\ UNCHANGED <<tree, limit, listed>>
  /\ UNCHANGED <<replayVars, usageVars, commandVars, permissionVars>>

NextDiscovery == ListSessions \/ ResolveSession \/ ResolveListed

(***************************************************************************)
(* The specifications: a replay of a persisted log, the usage accounting   *)
(* of a live session, the parsing of a command line, a permission prompt   *)
(* and discovery on a directory tree.                                      *)
(***************************************************************************)
Init == InitReplay /\ IdleUsage /\ IdleCommand /\ IdlePermission /\ IdleDiscovery
Next == NextReplay
Spec == Init /\ [][Next]_vars

InitUsageOnly == IdleReplay /\ InitUsage /\ IdleCommand /\ IdlePermission /\ IdleDiscovery
SpecUsage == InitUsageOnly /\ [][UsageCall]_vars

InitCommandOnly == IdleReplay /\ IdleUsage /\ InitCommand /\ IdlePermission /\ IdleDiscovery
SpecCommand == InitCommandOnly /\ [][ParseEnvelope]_vars

InitPermissionOnly ==
  IdleReplay /\ IdleUsage /\ IdleCommand /\ InitPermission /\ IdleDiscovery
SpecPermission == InitPermissionOnly /\ [][NextPermission]_vars

InitDiscoveryOnly ==
  IdleReplay /\ IdleUsage /\ IdleCommand /\ IdlePermission /\ InitDiscovery
SpecDiscovery == InitDiscoveryOnly /\ [][NextDiscovery]_vars

(***************************************************************************)
(* Properties of the replay engine.                                        *)
(***************************************************************************)
IsPrefix(a, b) == Len(a) <= Len(b) /\ SubSeq(b, 1, Len(a)) = a

\* place p comes before place q in the file: by line, then by message
\* candidate, then by content block (the usage of a message comes after its
\* last block)
ComesBefore(p, q) ==
  \/ p[1] < q[1]
  \/ p[1] = q[1] /\ p[2] < q[2]
  \/ p[1] = q[1] /\ p[2] = q[2] /\ p[3] < q[3]

\* the message candidates of line number l of the file
CandidatesAt(l) ==
  IF RecordOfLine(file.lines[l]) = Null THEN <<>>
  ELSE persistedMessageCandidates(RecordOfLine(file.lines[l]))

MessageOf(place) == CandidatesAt(place[1])[place[2]]
UsagePlace(l, c) == <<l, c, Len(ContentOf(CandidatesAt(l)[c])) + 1>>
IdOf(m) == StringOrEmpty(Get(m, "id"))

\* update number i is the usage update of the message it came from
IsUsageUpdate(i) == updates[i].type = "usage_update"

\* the qualifying messages of the file, as <<line, candidate>>
QualifyingPlaces ==
  UNION {{<<l, c>> : c \in {k \in 1..Len(CandidatesAt(l)) : QualifyingRole(CandidatesAt(l)[k])}} :
           l \in 1..Len(file.lines)}

\* item is a tool-result block
IsToolResultBlock(item) ==
  asRecordOrNull(item) # Null /\ StringOrEmpty(Get(item, "type")) \in TOOL_RESULT_TYPES

\* the tool-result blocks of the qualifying messages, as <<line, candidate, block>>
ToolResultPlaces ==
  UNION {{<<lc[1], lc[2], k>> :
            k \in {b \in 1..Len(ContentOf(MessageOf(lc))) :
                     IsToolResultBlock(ContentOf(MessageOf(lc))[b])}} :
           lc \in QualifyingPlaces}

BlockAt(p) == ContentOf(MessageOf(p))[p[3]]

\* C1: the updates are in file order.  Updates are only ever added at the
\* end of the sequence, every update is added while the loops stand at the
\* place it is derived from, these places strictly increase along the
\* sequence, and the update taken at the usage place of a message (after its
\* last block) is its usage_update.
C1_FileOrder ==
  [][/\ pc # "done" => IsPrefix(updates, updates')
     /\ Len(origins') = Len(updates')
     /\ \A i, j \in DOMAIN origins' : i < j => ComesBefore(origins'[i], origins'[j])
     /\ \A i \in DOMAIN origins' :
          (updates'[i].type = "usage_update") <=>
             (origins'[i] = UsagePlace(origins'[i][1], origins'[i][2]))]_vars

\* a block update, then the usage update of the same message, then an update
\* of a later line
C1_Witness ==
  /\ pc = "done"
  /\ \E i, j, k \in DOMAIN updates :
       /\ i < j /\ j < k
       /\ ~IsUsageUpdate(i) /\ IsUsageUpdate(j)
       /\ origins[i][1] = origins[j][1] /\ origins[i][2] = origins[j][2]
       /\ origins[j][1] < origins[k][1]

\* C2: at most one usage_update per non-empty message id in one replay pass
\* (exactly one when a message with that id yields one), and a message
\* without an id is never suppressed.
C2_UsageOncePerId ==
  /\ \A i, j \in DOMAIN updates :
       (i < j /\ IsUsageUpdate(i) /\ IsUsageUpdate(j)
          /\ IdOf(MessageOf(origins[i])) = IdOf(MessageOf(origins[j])))
       => IdOf(MessageOf(origins[i])) = <<>>
  /\ pc = "done" =>
       \A lc \in QualifyingPlaces :
         buildUsageUpdateFromResult(MessageOf(lc)) # Null =>
           IF IdOf(MessageOf(lc)) = <<>>
           THEN \E i \in DOMAIN updates :
                  IsUsageUpdate(i) /\ origins[i] = UsagePlace(lc[1], lc[2])
           ELSE \E i \in DOMAIN updates :
                  IsUsageUpdate(i) /\ IdOf(MessageOf(origins[i])) = IdOf(MessageOf(lc))

\* two lines carry the same message id and usage data; one usage_update
C2_Witness ==
  /\ pc = "done"
  /\ \E a, b \in QualifyingPlaces :
       /\ a[1] < b[1]
       /\ IdOf(MessageOf(a)) # <<>>
       /\ IdOf(MessageOf(a)) = IdOf(MessageOf(b))
       /\ buildUsageUpdateFromResult(MessageOf(a)) # Null
       /\ buildUsageUpdateFromResult(MessageOf(a)) = buildUsageUpdateFromResult(MessageOf(b))
  /\ Cardinality({i \in DOMAIN updates : IsUsageUpdate(i)}) = 1

\* C3: in every returned array each tool_call creation update still has
\* status in_progress and neither raw output nor content.
C3_CreationNeverMutated ==
  \A n \in DOMAIN returned :
    \A i \in DOMAIN returned[n].result :
      returned[n].result[i].type = "tool_call" =>
        /\ returned[n].result[i].tool_call.status = "in_progress"
        /\ returned[n].result[i].tool_call.raw_output = Undefined
        /\ returned[n].result[i].tool_call.content = Undefined

\* C4, as claimed: every tool-result block of a qualifying message yields a
\* tool_call_update that refers to the tool-use id of the block.
C4_EveryToolResultEmits ==
  pc = "done" =>
    \A p \in ToolResultPlaces :
      \E i \in DOMAIN updates :
        /\ origins[i] = p
        /\ updates[i].type = "tool_call_update"
        /\ updates[i].tool_call_update.tool_call_id =
             StringOrEmpty(Get(BlockAt(p), "tool_use_id"))

\* C4, amended: every tool-result block of a qualifying message whose
\* tool_use_id is a non-empty string yields a tool_call_update with that id,
\* whether or not a tool call with that id was opened before.
C4_ToolResultWithIdEmits ==
  pc = "done" =>
    \A p \in ToolResultPlaces :
      NonEmptyString(Get(BlockAt(p), "tool_use_id")) =>
        \E i \in DOMAIN updates :
          /\ origins[i] = p
          /\ updates[i].type = "tool_call_update"
          /\ updates[i].tool_call_update.tool_call_id = Get(BlockAt(p), "tool_use_id").s

\* the ids of the tool_call creation updates emitted so far
CreatedIds == {heap[updates[i].tool_call].id : i \in {j \in DOMAIN updates : updates[j].type = "tool_call"}}

\* a tool_call_update was emitted for an id that no tool call was opened for
C4_Witness ==
  /\ pc = "done"
  /\ \E i \in DOMAIN updates :
       /\ updates[i].type = "tool_call_update"
       /\ updates[i].tool_call_update.tool_call_id \notin CreatedIds

\* C5: the keys of the tool-call table are the ids for which a tool_call
\* creation update was emitted in this pass.
C5_TableIffCreated == DOMAIN toolCalls = CreatedIds

\* in the middle of a pass, with two tool calls open
C5_Witness == pc = "block" /\ Cardinality(DOMAIN toolCalls) = 2

\* C6: the array returned for a log equals the array returned for the same
\* log without its blank and malformed lines.
C6_MalformedLinesIgnored ==
  \A m, n \in DOMAIN returned :
    returned[n].file = FileOf(Clean(returned[m].file.lines)) /\ returned[m].file.readable
      => returned[n].result = returned[m].result

\* a log with a blank or malformed line and a line that emits updates was
\* replayed, and then the same log without the blank or malformed line
C6_Witness ==
  /\ Len(returned) = 2
  /\ returned[1].file.readable
  /\ Len(returned[1].file.lines) > Len(Clean(returned[1].file.lines))
  /\ returned[2].file = FileOf(Clean(returned[1].file.lines))
  /\ returned[1].result # <<>>

(***************************************************************************)
(* Properties of usage accounting.                                         *)
(***************************************************************************)
LastObserved == observedTotals[Len(observedTotals)]

\* C7: over the calls on one session context that observe a total cost, the
\* first turn cost equals the first total, every later turn cost equals
\* max(0, new total - last observed total), and after each such call the
\* context's last total is the total observed most recently.
C7_DeltaSequence ==
  /\ Len(turnCosts) = Len(observedTotals)
  /\ \A i \in DOMAIN observedTotals :
       turnCosts[i] = IF i = 1 THEN observedTotals[1]
                      ELSE Num(Max0(observedTotals[i].n - observedTotals[i - 1].n))
  /\ observedTotals # <<>> => session.lastTotalCostUsd = LastObserved

\* totals 2, 5, 3 have been observed and gave the turn costs 2, 3, 0
C7_Witness ==
  /\ observedTotals = <<Num(2), Num(5), Num(3)>>
  /\ turnCosts = <<Num(2), Num(3), Num(0)>>

\* C8 as stated: across the calls on one session context the stored
\* lastTotalCostUsd never decreases.
C8_NeverDecreases ==
  [][(session.lastTotalCostUsd # Undefined /\ session'.lastTotalCostUsd # Undefined)
       => session'.lastTotalCostUsd.n >= session.lastTotalCostUsd.n]_vars

\* C8: the stored lastTotalCostUsd is never unset once set; a call that
\* observes a total leaves it equal to that total, and a call that observes
\* none leaves it as it was.
C8_FollowsObservedTotal ==
  [][/\ session.lastTotalCostUsd # Undefined => session'.lastTotalCostUsd # Undefined
     /\ IF observedTotals' # observedTotals
        THEN session'.lastTotalCostUsd = observedTotals'[Len(observedTotals')]
        ELSE session'.lastTotalCostUsd = session.lastTotalCostUsd]_vars

\* a call has just observed a total lower than the one before it
C8_Witness ==
  /\ Len(observedTotals) >= 2
  /\ LastObserved.n < observedTotals[Len(observedTotals) - 1].n
  /\ session.lastTotalCostUsd = LastObserved

(***************************************************************************)
(* Properties of the command parser.                                       *)
(***************************************************************************)
KnownKinds ==
  {<<"initialize">>, <<"create_session">>, <<"load_session">>, <<"new_session">>,
   <<"prompt">>, <<"cancel_turn">>, <<"set_model">>, <<"set_mode">>,
   <<"permission_response">>, <<"shutdown">>}

\* the required fields of a kind and their types
RequiredFields(kind) ==
  CASE kind = <<"initialize">> -> {<<"cwd", "string">>}
    [] kind = <<"create_session">> -> {<<"cwd", "string">>, <<"yolo", "boolean">>}
    [] kind = <<"load_session">> -> {<<"session_id", "string">>}
    [] kind = <<"new_session">> -> {<<"cwd", "string">>, <<"yolo", "boolean">>}
    [] kind = <<"prompt">> -> {<<"session_id", "string">>, <<"chunks", "array">>}
    [] kind = <<"cancel_turn">> -> {<<"session_id", "string">>}
    [] kind = <<"set_model">> -> {<<"session_id", "string">>, <<"model", "string">>}
    [] kind = <<"set_mode">> -> {<<"session_id", "string">>, <<"mode", "string">>}
    [] kind = <<"permission_response">> ->
         {<<"session_id", "string">>, <<"tool_call_id", "string">>, <<"outcome", "object">>}
    [] OTHER -> {}

\* {kind: string, value: any}
IsChunk(chunk) ==
  /\ chunk.t = "object"
  /\ IsString(Get(chunk, "kind"))
  /\ "value" \in DOMAIN chunk.fields

\* {outcome: "selected" | "cancelled", option_id: string if selected}
IsOutcome(outcome) ==
  /\ Get(outcome, "outcome") \in {S("selected"), S("cancelled")}
  /\ Get(outcome, "outcome") = S("selected") => IsString(Get(outcome, "option_id"))

\* a command with every required field of its kind, each of its type
IsComplete(command) ==
  LET kind == Get(command, "command").s
  IN /\ \A field \in RequiredFields(kind) : Get(command, field[1]).t = field[2]
     /\ kind = <<"prompt">> =>
          \A i \in DOMAIN Get(command, "chunks").items : IsChunk(Get(command, "chunks").items[i])
     /\ kind = <<"permission_response">> => IsOutcome(Get(command, "outcome"))

\* the line is an envelope: the text of a JSON object with a string command tag
IsEnvelope(inputLine) ==
  /\ inputLine.kind = "json"
  /\ inputLine.value.t = "object"
  /\ IsString(Get(inputLine.value, "command"))

\* C9: a parse either fails with an error or returns a command whose kind is
\* the envelope's tag, is one of the ten known kinds, and has every required
\* field of the kind with its type; an envelope with an unrecognized tag fails
\* with "unsupported command: <name>".
C9_AllOrNothing ==
  parsed # Pending =>
    /\ IF parsed.ok
       THEN /\ IsEnvelope(commandLine)
            /\ Get(parsed.value.command, "command") = Get(commandLine.value, "command")
            /\ Get(parsed.value.command, "command").s \in KnownKinds
            /\ IsComplete(parsed.value.command)
       ELSE parsed.error # <<>>
    /\ (IsEnvelope(commandLine) /\ Get(commandLine.value, "command").s \notin KnownKinds)
         => /\ ~parsed.ok
            /\ parsed.error = <<"unsupported command: ">> \o Get(commandLine.value, "command").s

\* a create_session envelope with a string cwd and a boolean yolo has been
\* parsed to a create_session command
C9_Witness ==
  /\ parsed # Pending
  /\ parsed.ok
  /\ Get(parsed.value.command, "command") = S("create_session")
  /\ Get(parsed.value.command, "yolo") = Bool(FALSE)
  /\ Get(parsed.value.command, "model") = S("v")

\* the line is a prompt envelope
IsPrompt(inputLine) == IsEnvelope(inputLine) /\ Get(inputLine.value, "command") = S("prompt")

\* the prompt envelope has a string session_id and an array of chunks
IsValidPrompt(inputLine) ==
  /\ IsPrompt(inputLine)
  /\ IsString(Get(inputLine.value, "session_id"))
  /\ Get(inputLine.value, "chunks").t = "array"
  /\ \A i \in DOMAIN Get(inputLine.value, "chunks").items :
       IsChunk(Get(inputLine.value, "chunks").items[i])

\* the command carries the envelope's session_id and its chunks, in order
RoundTrip(inputLine, result) ==
  LET sent == Get(inputLine.value, "chunks").items
      got == Get(result.value.command, "chunks").items
  IN /\ result.ok
     /\ Get(result.value.command, "command") = S("prompt")
     /\ Get(result.value.command, "session_id") = Get(inputLine.value, "session_id")
     /\ Len(got) = Len(sent)
     /\ \A i \in DOMAIN sent :
          /\ Get(got[i], "kind") = Get(sent[i], "kind")
          /\ Get(got[i], "value") = Get(sent[i], "value")

\* the error names the field path
Names(error, path) ==
  \E i \in 1..(Len(error) - Len(path) + 1) : SubSeq(error, i, i + Len(path) - 1) = path

\* C10 as stated: a valid prompt parses to a prompt command with exactly its
\* session_id and chunks; a prompt whose chunks field is missing fails with an
\* error naming prompt.chunks.
C10_PromptRoundTrip ==
  (parsed # Pending /\ IsPrompt(commandLine)) =>
    /\ IsValidPrompt(commandLine) => RoundTrip(commandLine, parsed)
    /\ Get(commandLine.value, "chunks") = Undefined
         => ~parsed.ok /\ Names(parsed.error, <<"prompt", ".", "chunks">>)

\* C10: a valid prompt parses to a prompt command with exactly its session_id
\* and chunks; a prompt with a string session_id whose chunks field is missing
\* fails with an error naming prompt.chunks.
C10_PromptRoundTripWithSession ==
  (parsed # Pending /\ IsPrompt(commandLine)) =>
    /\ IsValidPrompt(commandLine) => RoundTrip(commandLine, parsed)
    /\ (IsString(Get(commandLine.value, "session_id"))
          /\ Get(commandLine.value, "chunks") = Undefined)
         => ~parsed.ok /\ Names(parsed.error, <<"prompt", ".", "chunks">>)

\* a prompt with two different chunks has been parsed
C10_Witness ==
  /\ parsed # Pending
  /\ IsValidPrompt(commandLine)
  /\ parsed.ok
  /\ Len(Get(parsed.value.command, "chunks").items) = 2
  /\ Get(parsed.value.command, "chunks").items[1] # Get(parsed.value.command, "chunks").items[2]

(***************************************************************************)
(* Properties of permission negotiation.                                   *)
(***************************************************************************)
\* the suggestions of the request, none when the list is absent
Suggested == permRequest.suggestions.items

IsPersistentScoped(suggestion) ==
  suggestion.destination \in {"userSettings", "projectSettings", "localSettings"}

\* session, cliArg and every unrecognized destination
IsSessionScoped(suggestion) == ~IsPersistentScoped(suggestion)

\* the rule updates attached to a result
Attached(permissionResult) ==
  IF "updatedPermissions" \in DOMAIN permissionResult
  THEN permissionResult.updatedPermissions ELSE <<>>

\* the user selected the option
Selected(id) == permOutcome = [outcome |-> "selected", option_id |-> id]

\* C11: a resolution always yields allow or deny; it is allow exactly when the
\* outcome is selected with allow_once, allow_session or allow_always; a
\* cancelled outcome yields deny "Permission cancelled" and a selected
\* outcome with any other option id yields deny "Permission denied".
C11_DefaultDeny ==
  permPc = "resolved" =>
    /\ permResult.behavior \in {"allow", "deny"}
    /\ permResult.behavior = "allow" <=>
         (Selected("allow_once") \/ Selected("allow_session") \/ Selected("allow_always"))
    /\ permOutcome.outcome = "cancelled" =>
         permResult = [behavior |-> "deny", message |-> "Permission cancelled",
                       toolUseID |-> permRequest.toolCallId]
    /\ (permOutcome.outcome = "selected"
          /\ permOutcome.option_id \notin {"allow_once", "allow_session", "allow_always"}) =>
         permResult = [behavior |-> "deny", message |-> "Permission denied",
                       toolUseID |-> permRequest.toolCallId]

\* an option id that differs from allow_once only in case was selected and
\* denied, though the request came with suggestions and a tool name
C11_Witness ==
  /\ permPc = "resolved"
  /\ Selected("Allow_Once")
  /\ Len(Suggested) > 0
  /\ permRequest.toolName = S("Bash")
  /\ permResult.behavior = "deny"

\* C12: the menu has exactly three options, allow-once, allow-broader and
\* deny-once in this order, and the second is allow_session exactly when a
\* session-scoped suggestion exists and no persistent-scoped one does,
\* otherwise allow_always.
C12_MenuOfThree ==
  permPc \in {"offered", "resolved"} =>
    LET sessionOnly == /\ \E i \in DOMAIN Suggested : IsSessionScoped(Suggested[i])
                       /\ ~\E i \in DOMAIN Suggested : IsPersistentScoped(Suggested[i])
    IN /\ Len(permOptions) = 3
       /\ permOptions[1] = [option_id |-> "allow_once", name |-> "Allow once",
                            kind |-> "allow_once"]
       /\ permOptions[2] = IF sessionOnly
                           THEN [option_id |-> "allow_session", name |-> "Allow for session",
                                 kind |-> "allow_session"]
                           ELSE [option_id |-> "allow_always", name |-> "Always allow",
                                 kind |-> "allow_always"]
       /\ permOptions[3] = [option_id |-> "reject_once", name |-> "Deny", kind |-> "reject_once"]

\* two session-scoped suggestions and one persistent-scoped one: allow_always
C12_Witness ==
  /\ permPc = "offered"
  /\ Len(Suggested) = 3
  /\ Cardinality({i \in DOMAIN Suggested : IsSessionScoped(Suggested[i])}) = 2
  /\ permOptions[2].option_id = "allow_always"

\* C13: allow_always yields an allow result whose rule updates are exactly
\* the persistent-scoped suggestions of the request, in their order, and
\* nothing is attached when there is none.
C13_AlwaysAttachesPersistent ==
  (permPc = "resolved" /\ Selected("allow_always")) =>
    /\ permResult.behavior = "allow"
    /\ Attached(permResult) = SelectSeq(Suggested, IsPersistentScoped)
    /\ "updatedPermissions" \in DOMAIN permResult <=>
         \E i \in DOMAIN Suggested : IsPersistentScoped(Suggested[i])

\* allow_always on a request with session-scoped suggestions only and a known
\* tool name: nothing is attached
C13_Witness ==
  /\ permPc = "resolved"
  /\ Selected("allow_always")
  /\ Len(Suggested) = 2
  /\ \A i \in DOMAIN Suggested : IsSessionScoped(Suggested[i])
  /\ permRequest.toolName = S("Bash")
  /\ "updatedPermissions" \notin DOMAIN permResult

\* C14: allow_session yields an allow result that attaches exactly the
\* session-scoped suggestions when there is one; else, when the tool name is
\* known, the one rule that allows the tool for the session; else nothing.
C14_SessionAttachesSessionOrRule ==
  (permPc = "resolved" /\ Selected("allow_session")) =>
    /\ permResult.behavior = "allow"
    /\ Attached(permResult) =
         IF \E i \in DOMAIN Suggested : IsSessionScoped(Suggested[i])
         THEN SelectSeq(Suggested, IsSessionScoped)
         ELSE IF permRequest.toolName \notin {Undefined, Str(<<>>)}
              THEN <<[type |-> "addRules", rules |-> <<[toolName |-> permRequest.toolName]>>,
                      behavior |-> "allow", destination |-> "session"]>>
              ELSE <<>>
    /\ "updatedPermissions" \in DOMAIN permResult <=> Attached(permResult) # <<>>
    /\ \A i \in DOMAIN Attached(permResult) : ~IsPersistentScoped(Attached(permResult)[i])

\* allow_session on a request whose suggestions have an unrecognized
\* destination between persistent-scoped ones: that suggestion is attached
C14_Witness ==
  /\ permPc = "resolved"
  /\ Selected("allow_session")
  /\ Len(Suggested) = 3
  /\ IsPersistentScoped(Suggested[1])
  /\ Suggested[2].destination = "policySettings"
  /\ IsPersistentScoped(Suggested[3])
  /\ Attached(permResult) = <<Suggested[2]>>

\* C15: allow_once yields an allow result with the input of the request
\* unchanged and no rule updates.
C15_OncePassesInput ==
  (permPc = "resolved" /\ Selected("allow_once")) =>
    /\ permResult.behavior = "allow"
    /\ permResult.updatedInput = permRequest.inputData
    /\ "updatedPermissions" \notin DOMAIN permResult

\* allow_once on a request with input {path: "x"}, suggestions and a tool name
C15_Witness ==
  /\ permPc = "resolved"
  /\ Selected("allow_once")
  /\ permRequest.inputData = Obj([path |-> S("x")])
  /\ Len(Suggested) > 0
  /\ permRequest.toolName = S("Bash")
  /\ permResult.toolUseID = "t1"

(***************************************************************************)
(* Properties of session discovery.                                        *)
(***************************************************************************)
\* the log files of the tree that can be seen and dated: the files named
\* <id>.jsonl in a readable project directory whose stat succeeds
SessionLogFiles(root) ==
  LET places == {place \in UNION {{<<d, e>> : e \in DOMAIN root.dirs[d].entries} :
                                    d \in DOMAIN root.dirs} :
                   /\ root.dirs[place[1]].listable
                   /\ root.dirs[place[1]].entries[place[2]].isFile
                   /\ EndsWithJsonl(root.dirs[place[1]].entries[place[2]].name)
                   /\ root.dirs[place[1]].entries[place[2]].stat.ok}
  IN {[session_id |-> Front(root.dirs[place[1]].entries[place[2]].name),
       file_path |-> <<root.dirs[place[1]].name, root.dirs[place[1]].entries[place[2]].name>>,
       mtimeMs |-> root.dirs[place[1]].entries[place[2]].stat.mtimeMs,
       log |-> root.dirs[place[1]].entries[place[2]].log] : place \in places}

\* no file of the same session is more recent
IsMostRecent(logFile, root) ==
  \A other \in SessionLogFiles(root) :
    other.session_id = logFile.session_id => other.mtimeMs <= logFile.mtimeMs

\* C16: the listing holds pairwise distinct session ids, is ordered by
\* sort_ms descending, holds a non-empty cwd in every entry, and each entry
\* is made of a most recently modified log file of its session id; a session
\* whose one most recent file has no usable cwd is not listed.
C16_ListingDistinctRankedRecent ==
  discPc = "listed" =>
    /\ \A i, j \in DOMAIN listed : i # j => listed[i].session_id # listed[j].session_id
    /\ \A i \in DOMAIN listed : i < Len(listed) => listed[i].sort_ms >= listed[i + 1].sort_ms
    /\ \A i \in DOMAIN listed : listed[i].cwd # <<>>
    /\ \A i \in DOMAIN listed :
         \E logFile \in SessionLogFiles(tree) :
           /\ logFile.session_id = listed[i].session_id
           /\ logFile.file_path = listed[i].file_path
           /\ logFile.mtimeMs = listed[i].sort_ms
           /\ PreviewCwd(logFile.log) = listed[i].cwd
           /\ IsMostRecent(logFile, tree)
    /\ \A logFile \in SessionLogFiles(tree) :
         (/\ PreviewCwd(logFile.log) = <<>>
          /\ \A other \in SessionLogFiles(tree) :
               (other.session_id = logFile.session_id /\ other # logFile)
                 => other.mtimeMs < logFile.mtimeMs)
           => \A i \in DOMAIN listed : listed[i].session_id # logFile.session_id

\* a listing of two sessions, one of which has an older log file with a usable
\* cwd as well
C16_Witness ==
  /\ discPc = "listed"
  /\ Len(listed) = 2
  /\ \E i \in DOMAIN listed : \E logFile \in SessionLogFiles(tree) :
       /\ logFile.session_id = listed[i].session_id
       /\ logFile.mtimeMs < listed[i].sort_ms
       /\ PreviewCwd(logFile.log) # <<>>

\* the sessions a listing without a limit holds, in ranked order
QualifyingSessions(root) ==
  listRecentPersistedSessions(root, Cardinality(SessionLogFiles(root)) + 1)

FirstOf(entries, count) ==
  IF count < Len(entries) THEN SubSeq(entries, 1, count) ELSE entries

\* C17: for every limit the listing stops once limit qualifying entries are
\* collected: it holds at most limit entries, and they are the first limit
\* qualifying sessions in ranked order.
C17_StopsAtLimit ==
  discPc = "listed" =>
    /\ Len(listed) <= limit
    /\ listed = FirstOf(QualifyingSessions(tree), limit)

\* the project directories' log files named after the id whose preview has a
\* usable cwd, each with the modification time the lookup reads for it
MatchesOf(root, sessionId) ==
  LET places == {place \in UNION {{<<d, e>> : e \in DOMAIN root.dirs[d].entries} :
                                    d \in DOMAIN root.dirs} :
                   /\ root.dirs[place[1]].entries[place[2]].name = sessionId \o <<".jsonl">>
                   /\ root.dirs[place[1]].entries[place[2]].isFile
                   /\ PreviewCwd(root.dirs[place[1]].entries[place[2]].log) # <<>>}
  IN {[session_id |-> sessionId,
       cwd |-> PreviewCwd(root.dirs[place[1]].entries[place[2]].log),
       file_path |-> <<root.dirs[place[1]].name, root.dirs[place[1]].entries[place[2]].name>>,
       sort_ms |-> IF root.dirs[place[1]].entries[place[2]].stat.ok
                   THEN root.dirs[place[1]].entries[place[2]].stat.mtimeMs
                   ELSE 0] : place \in places}

\* the id is empty or holds "/", "\" or ".."
IsUnsafeId(sessionId) ==
  \/ sessionId = <<>>
  \/ \E i \in DOMAIN sessionId : sessionId[i] \in {"/", "\\", ".."}
  \/ \E i \in 1..(Len(sessionId) - 1) : sessionId[i] = "." /\ sessionId[i + 1] = "."

\* C18: for an id the lookup accepts, resolvePersistedSessionEntry returns a
\* match of greatest modification time among the log files named after the id
\* whose preview has a usable cwd, and not-found only when there is no such
\* match; a file without a usable cwd is never returned and never hides an
\* older match that has one.
C18_ResolvesGreatestUsableMatch ==
  (discPc = "resolved" /\ ~IsUnsafeId(wantedId) /\ Trim(wantedId) # <<>>) =>
    IF MatchesOf(tree, wantedId) = {}
    THEN resolved = NoEntry
    ELSE /\ resolved \in MatchesOf(tree, wantedId)
         /\ \A other \in MatchesOf(tree, wantedId) : other.sort_ms <= resolved.sort_ms

\* the second project directory holds the newer match and the first an older
\* one, and the newer one is returned
C18_Witness ==
  /\ discPc = "resolved"
  /\ resolved # NoEntry
  /\ resolved.file_path[1] = ProjectDirNames[2]
  /\ \E other \in MatchesOf(tree, wantedId) :
       other.file_path[1] = ProjectDirNames[1] /\ other.sort_ms < resolved.sort_ms

\* the path lies in a project directory
IsInProjectDir(root, path) ==
  /\ path.up = 0
  /\ Len(path.names) = 2
  /\ \E d \in DOMAIN root.dirs : root.dirs[d].name = path.names[1]

\* C19: for every id that is empty or holds "/", "\" or "..",
\* resolvePersistedSessionEntry returns not-found and looks at no file
\* outside the project directories.
C19_UnsafeIdNotFound ==
  (discPc = "resolved" /\ IsUnsafeId(wantedId)) =>
    /\ resolved = NoEntry
    /\ \A path \in touched : IsInProjectDir(tree, path)

\* an id with ".." and "/" that would lead from one project directory to a
\* log file of another is asked for and not found
C19_Witness ==
  /\ discPc = "resolved"
  /\ \E i \in DOMAIN wantedId : wantedId[i] = ".."
  /\ \E i \in DOMAIN wantedId : wantedId[i] = "/"
  /\ DirentOf(tree, SessionFilePath(ProjectDirNames[2], wantedId)).exists
  /\ PreviewCwd(DirentOf(tree, SessionFilePath(ProjectDirNames[2], wantedId)).log) # <<>>
  /\ resolved = NoEntry

(***************************************************************************)
(* Replays one after the other.                                            *)
(***************************************************************************)
\* lines 365-389 on new locals: the content items of one message
RECURSIVE ReplayBlocks(_, _, _)
ReplayBlocks(st, role, blocks) ==
  IF blocks = <<>> THEN st
  ELSE ReplayBlocks(ProcessBlock(st, role, Head(blocks)), role, Tail(blocks))

\* lines 359-391: the message candidates of one line
RECURSIVE ReplayMessages(_, _)
ReplayMessages(st, messages) ==
  IF messages = <<>> THEN st
  ELSE IF ~QualifyingRole(Head(messages)) THEN ReplayMessages(st, Tail(messages))
  ELSE ReplayMessages(
         pushResumeUsageUpdate(
           ReplayBlocks(st, Get(Head(messages), "role").s, ContentOf(Head(messages))),
           Head(messages)),
         Tail(messages))

\* lines 344-392: the lines of the log
RECURSIVE ReplayLines(_, _)
ReplayLines(st, lines) ==
  IF lines = <<>> THEN st
  ELSE IF RecordOfLine(Head(lines)) = Null THEN ReplayLines(st, Tail(lines))
  ELSE ReplayLines(ReplayMessages(st, persistedMessageCandidates(RecordOfLine(Head(lines)))),
                   Tail(lines))

\* what a call returns for a log when nothing ran before it
ReplayAlone(log) ==
  IF ~log.readable THEN <<>> ELSE Returned(ReplayLines(NewReplay, log.lines))

\* C20: replay state is scoped to one invocation: whatever replays ran before
\* it, a call returns for a log what a call on new locals returns for it, and
\* every call starts without tool calls and without seen usage ids.
C20_ReplayScopedToCall ==
  /\ \A n \in DOMAIN returned : returned[n].result = ReplayAlone(returned[n].file)
  /\ pc = "read" => (toolCalls = EmptyMap /\ emittedUsageMessageIds = {})

\* a replay that opened a tool call and merged a result into it was followed
\* by a replay of another log with the same records, which returned the same
C20_Witness ==
  /\ Len(returned) = 2
  /\ returned[1].file # returned[2].file
  /\ \E i \in DOMAIN returned[1].result : returned[1].result[i].type = "tool_call"
  /\ \E i \in DOMAIN returned[2].result : returned[2].result[i].type = "tool_call_update"
  /\ returned[2].result = ReplayAlone(returned[2].file)

(***************************************************************************)
(* Further properties of a replay.                                         *)
(***************************************************************************)
\* the message at place yields a usage update and carries an id
YieldsUsageWithId(place) ==
  IdOf(MessageOf(place)) # <<>> /\ buildUsageUpdateFromResult(MessageOf(place)) # Null

\* the first qualifying message with the id of the message at place that
\* yields a usage update
FirstYielding(place) ==
  CHOOSE first \in QualifyingPlaces :
    /\ IdOf(MessageOf(first)) = IdOf(MessageOf(place))
    /\ YieldsUsageWithId(first)
    /\ \A other \in QualifyingPlaces :
         (IdOf(MessageOf(other)) = IdOf(MessageOf(place)) /\ YieldsUsageWithId(other))
           => ~ComesBefore(<<other[1], other[2], 0>>, <<first[1], first[2], 0>>)

\* C21: an id is marked seen only when a usage_update was emitted for it: the
\* seen set holds exactly the ids of the usage updates emitted so far, and at
\* the end of a replay the one usage_update of an id is the update of the first
\* message with that id that yields one, whatever came before it.
C21_SeenOnlyWhenEmitted ==
  /\ emittedUsageMessageIds =
       {IdOf(MessageOf(origins[i])) : i \in {k \in DOMAIN updates : IsUsageUpdate(k)}}
         \ {<<>>}
  /\ pc = "done" =>
       \A place \in QualifyingPlaces :
         YieldsUsageWithId(place) =>
           /\ \E i \in DOMAIN updates :
                /\ IsUsageUpdate(i)
                /\ origins[i] = UsagePlace(FirstYielding(place)[1], FirstYielding(place)[2])
                /\ updates[i] = buildUsageUpdateFromResult(MessageOf(FirstYielding(place)))
           /\ \A i \in DOMAIN updates :
                (IsUsageUpdate(i) /\ IdOf(MessageOf(origins[i])) = IdOf(MessageOf(place)))
                  => origins[i] = UsagePlace(FirstYielding(place)[1], FirstYielding(place)[2])

\* a message with an id that yields no usage update came before a message
\* with the same id that yields one, and the later one's update was emitted
C21_Witness ==
  /\ pc = "done"
  /\ \E a, b \in QualifyingPlaces :
       /\ ComesBefore(<<a[1], a[2], 0>>, <<b[1], b[2], 0>>)
       /\ IdOf(MessageOf(a)) # <<>>
       /\ IdOf(MessageOf(a)) = IdOf(MessageOf(b))
       /\ buildUsageUpdateFromResult(MessageOf(a)) = Null
       /\ buildUsageUpdateFromResult(MessageOf(b)) # Null
       /\ \E i \in DOMAIN updates :
            IsUsageUpdate(i) /\ origins[i] = UsagePlace(b[1], b[2])

\* the step walks the next content item of the message
WalksBlock == pc = "block" /\ blockNo' = blockNo + 1

\* the content item a block step walks
WalkedItem == ContentOf(message)[blockNo + 1]

\* the item is a tool-use block of an assistant message
IsAssistantToolUse(item) ==
  /\ asRecordOrNull(item) # Null
  /\ isToolUseBlockType(StringOrEmpty(Get(item, "type")))
  /\ Get(message, "role") = S("assistant")

\* the update of a tool result that found no stored call
UpdateWithoutBase(item) ==
  [type |-> "tool_call_update",
   tool_call_update |->
     [tool_call_id |-> StringOrEmpty(Get(item, "tool_use_id")),
      fields |-> buildToolResultFields(Truthy(Get(item, "is_error")), Get(item, "content"),
                                       Undefined)]]

\* C22: a step on a tool-result block whose id has no open tool call leaves
\* the tool-call table and the stored calls as they are, and its update (if
\* the id is not empty) is built without a base; an id enters the table only
\* in a step on a tool-use block of an assistant message that carries it.
C22_OrphanResultLeavesTable ==
  [][/\ (WalksBlock /\ IsToolResultBlock(WalkedItem)
           /\ StringOrEmpty(Get(WalkedItem, "tool_use_id")) \notin DOMAIN toolCalls)
          => /\ toolCalls' = toolCalls
             /\ heap' = heap
             /\ StringOrEmpty(Get(WalkedItem, "tool_use_id")) # <<>>
                  => updates' = Append(updates, UpdateWithoutBase(WalkedItem))
      /\ \A id \in DOMAIN toolCalls' \ DOMAIN toolCalls :
           /\ WalksBlock
           /\ IsAssistantToolUse(WalkedItem)
           /\ id = StringOrEmpty(Get(WalkedItem, "id"))]_vars

\* two tool results for an id were handled without a base before an assistant
\* tool-use block opened the id
C22_Witness ==
  /\ pc = "done"
  /\ \E i, j, k \in DOMAIN updates :
       /\ i < j /\ j < k
       /\ updates[i].type = "tool_call_update"
       /\ updates[j].type = "tool_call_update"
       /\ updates[k].type = "tool_call"
       /\ updates[i].tool_call_update.tool_call_id = heap[updates[k].tool_call].id
       /\ updates[j].tool_call_update.tool_call_id = heap[updates[k].tool_call].id
       /\ updates[j] = UpdateWithoutBase(BlockAt(origins[j]))
       /\ heap[updates[k].tool_call].id \in DOMAIN toolCalls

(***************************************************************************)
(* Optional fields of a command.                                           *)
(***************************************************************************)
\* the optional fields a kind reads and their types
OptionalFields(kind) ==
  CASE kind = <<"initialize">> -> {<<"metadata", "object">>}
    [] kind = <<"create_session">> ->
         {<<"model", "string">>, <<"resume", "string">>, <<"metadata", "object">>}
    [] kind = <<"load_session">> -> {<<"metadata", "object">>}
    [] kind = <<"new_session">> -> {<<"model", "string">>}
    [] OTHER -> {}

\* the optional fields of the kind of the line that was read
OptionalFieldsOfLine == OptionalFields(Get(commandLine.value, "command").s)

\* what the command holds for an optional field that is not provided
NotProvided(field) == IF field[2] = "object" THEN EmptyObj ELSE Undefined

\* C23: for every command kind, an optional field of the kind (model, resume,
\* metadata) that is present in the envelope with a value of the wrong type
\* makes the parse fail with an error.
C23_WrongTypeFails ==
  (parsed # Pending /\ IsEnvelope(commandLine)) =>
    \A field \in OptionalFieldsOfLine :
      (/\ Get(commandLine.value, field[1]) # Undefined
       /\ Get(commandLine.value, field[1]).t # field[2])
        => (~parsed.ok /\ parsed.error # <<>>)

\* C23, amended: an optional field of the kind that is present with a value
\* of the wrong type other than null makes the parse fail with an error; a
\* parse that succeeds holds every optional field as the envelope has it, and
\* an optional field that is null or not present as not provided (no model, no
\* resume, empty metadata).
C23_WrongTypeButNullFails ==
  (parsed # Pending /\ IsEnvelope(commandLine)) =>
    \A field \in OptionalFieldsOfLine :
      /\ (/\ Get(commandLine.value, field[1]) \notin {Undefined, Null}
          /\ Get(commandLine.value, field[1]).t # field[2])
           => (~parsed.ok /\ parsed.error # <<>>)
      /\ parsed.ok =>
           Get(parsed.value.command, field[1]) =
             IF Get(commandLine.value, field[1]) \in {Undefined, Null}
             THEN NotProvided(field)
             ELSE Get(commandLine.value, field[1])

\* a create_session envelope whose required fields and model are well typed
\* and whose resume is a number has been refused
C23_Witness ==
  /\ parsed # Pending
  /\ IsEnvelope(commandLine)
  /\ Get(commandLine.value, "command") = S("create_session")
  /\ IsString(Get(commandLine.value, "cwd"))
  /\ Get(commandLine.value, "yolo").t = "boolean"
  /\ IsString(Get(commandLine.value, "model"))
  /\ Get(commandLine.value, "resume") = Num(1)
  /\ Get(commandLine.value, "metadata") = Null
  /\ ~parsed.ok
  /\ parsed.error = <<"create_session", ".", "resume", " must be a string when provided">>

(***************************************************************************)
(* Listing and resolving on one tree.                                      *)
(***************************************************************************)
\* the entry of the listing that the id asked for came from
ListedAs(sessionId) == listed[CHOOSE i \in DOMAIN listed : listed[i].session_id = sessionId]

\* the id was taken from the listing
AskedFromListing ==
  discPc = "resolved" /\ \E i \in DOMAIN listed : listed[i].session_id = wantedId

\* C24: on an unchanged tree, resolving the id of a listed entry that is not
\* blank and holds no "/", "\" or ".." returns an entry with the file_path,
\* the cwd and the sort_ms of the listed entry.
C24_ListingAndResolvingAgree ==
  (AskedFromListing /\ ~IsUnsafeId(wantedId) /\ Trim(wantedId) # <<>>) =>
    /\ resolved # NoEntry
    /\ resolved.file_path = ListedAs(wantedId).file_path
    /\ resolved.cwd = ListedAs(wantedId).cwd
    /\ resolved.sort_ms = ListedAs(wantedId).sort_ms

(***************************************************************************)
(* The menu and the resolution of one request.                             *)
(***************************************************************************)
\* the option ids of the menu that was offered
OfferedIds == {permOptions[i].option_id : i \in DOMAIN permOptions}

\* the rule updates of the result that are not among the suggestions
NotSuggested ==
  {Attached(permResult)[i] : i \in DOMAIN Attached(permResult)}
    \ {Suggested[j] : j \in DOMAIN Suggested}

\* C25: when the host selects an option id of the menu offered for the
\* suggestions of the request, every rule update attached to the result is
\* one of these suggestions; a rule update that is not among them (the
\* synthesized session rule) is attached only when allow_session is selected
\* although the menu did not offer it.
C25_OfferedOptionsAttachSuggestions ==
  permPc = "resolved" =>
    /\ (permOutcome.outcome = "selected" /\ permOutcome.option_id \in OfferedIds)
         => NotSuggested = {}
    /\ NotSuggested # {} =>
         /\ Selected("allow_session")
         /\ "allow_session" \notin OfferedIds
         /\ NotSuggested = {SessionRuleFor(permRequest.toolName)}

\* the broader option of the menu was selected and its suggestions were
\* attached, for a request that names its tool
C25_Witness ==
  /\ permPc = "resolved"
  /\ permOutcome.outcome = "selected"
  /\ permOutcome.option_id \in OfferedIds \ {"allow_once"}
  /\ permRequest.toolName = S("Bash")
  /\ permResult.behavior = "allow"
  /\ Attached(permResult) # <<>>
  /\ NotSuggested = {}

====
